---- MODULE Spec2Model ----
(***************************************************************************)
(* StrictDB: the facade pipeline (sanitize, guardrails, schema validation, *)
(* timestamps, adapter, receipt, logger), the relational adapter's         *)
(* single-row emulation and upsert, batch(), and the transactional scope.  *)
(*                                                                         *)
(* SQL text is modelled as a sequence of tokens (strings): the text the    *)
(* source builds is the tokens joined by blanks.  String.replace over the  *)
(* text is the replacement of the first occurrence of a token sequence.    *)
(* Parameter values are abstracted to their number (values.length).        *)
(***************************************************************************)
EXTENDS Integers, Sequences, FiniteSets, TLC

\* ------------------------------------------------------------------ bounds
MaxRows == 2
MaxBatch == 2

\* ------------------------------------------------------------ small helpers
Min(a, b) == IF a < b THEN a ELSE b

Digit == <<"0", "1", "2", "3", "4", "5", "6", "7", "8", "9">>

RECURSIVE IntToStr(_)
IntToStr(n) == IF n < 10 THEN Digit[n + 1]
               ELSE IntToStr(n \div 10) \o Digit[(n % 10) + 1]

\* parts.join(sep) over token sequences
RECURSIVE Join(_, _)
Join(parts, sep) ==
  IF Len(parts) = 0 THEN <<>>
  ELSE IF Len(parts) = 1 THEN parts[1]
  ELSE parts[1] \o <<sep>> \o Join(Tail(parts), sep)

\* position of the first occurrence of pat in s, 0 when there is none
RECURSIVE IndexFrom(_, _, _)
IndexFrom(s, pat, i) ==
  IF i + Len(pat) - 1 > Len(s) THEN 0
  ELSE IF SubSeq(s, i, i + Len(pat) - 1) = pat THEN i
  ELSE IndexFrom(s, pat, i + 1)

\* String.prototype.replace(pattern: string, replacement): first occurrence only
Replace(s, pat, rep) ==
  LET i == IndexFrom(s, pat, 1) IN
  IF i = 0 THEN s
  ELSE SubSeq(s, 1, i - 1) \o rep \o SubSeq(s, i + Len(pat), Len(s))

Contains(s, tok) == \E i \in 1..Len(s) : s[i] = tok

\* v bound to a name in F: the value is computed once
With(v, F(_)) == F(v)

\* ------------------------------------------------------------- filter AST
\* A filter is the ordered sequence of its entries (Object.entries order).
\* kind: "scalar" | "undefined" | "null" | "date" | "array" | "bag" | "logical"
\* ops:  the operator bag of a "bag" entry; subs: the sub-filters of a logical key.
LogicalKeys == {"$and", "$or", "$nor"}
DollarKeys == LogicalKeys \cup {"$where"}

Entry(k, kind) == [key |-> k, kind |-> kind, ops |-> <<>>, subs |-> <<>>]
Bag(k, ops) == [key |-> k, kind |-> "bag", ops |-> ops, subs |-> <<>>]
Logical(k, subs) == [key |-> k, kind |-> "logical", ops |-> <<>>, subs |-> subs]

\* an operator of a bag: n is the array length of $in/$nin, isNull a null operand,
\* truthy the truthiness of the operand ($exists), sub the nested bag of $not
Op(o) == [op |-> o, n |-> 1, isNull |-> FALSE, truthy |-> TRUE, sub |-> <<>>]
OpNull(o) == [op |-> o, n |-> 0, isNull |-> TRUE, truthy |-> FALSE, sub |-> <<>>]
OpArr(o, k) == [op |-> o, n |-> k, isNull |-> FALSE, truthy |-> TRUE, sub |-> <<>>]
OpNot(sub) == [op |-> "$not", n |-> 0, isNull |-> FALSE, truthy |-> TRUE, sub |-> sub]

\* --------------------------------------------------- SQL helper functions
quoteIdentifier(name) == "\"" \o name \o "\""

placeholder(dialect, idx) ==
  CASE dialect = "pg" -> "$" \o IntToStr(idx)
    [] dialect = "mysql2" -> "?"
    [] dialect = "mssql" -> "@p" \o IntToStr(idx)
    [] dialect = "sqlite" -> "?"

RECURSIVE placeholderList(_, _, _)
placeholderList(dialect, idx, n) ==
  IF n = 0 THEN <<>>
  ELSE IF n = 1 THEN <<placeholder(dialect, idx)>>
  ELSE <<placeholder(dialect, idx), ",">> \o placeholderList(dialect, idx + 1, n - 1)

Tr(clause, n) == [clause |-> clause, n |-> n, err |-> "none"]
TrErr(code) == [clause |-> <<>>, n |-> 0, err |-> code]

translateRegexToSQL(quotedKey, dialect, paramIdx) ==
  CASE dialect = "pg" -> Tr(<<quotedKey, "~", placeholder(dialect, paramIdx)>>, 1)
    [] dialect = "mysql2" -> Tr(<<quotedKey, "REGEXP", placeholder(dialect, paramIdx)>>, 1)
    [] OTHER -> Tr(<<quotedKey, "LIKE", placeholder(dialect, paramIdx)>>, 1)

\* the accumulator of a translation loop: the clauses pushed so far and the number
\* of parameter values pushed so far
NoParts == [parts |-> <<>>, n |-> 0, err |-> "none"]
PartsErr(code) == [parts |-> <<>>, n |-> 0, err |-> code]
Push(acc, clause, n) == [parts |-> Append(acc.parts, clause), n |-> acc.n + n, err |-> "none"]

RECURSIVE translateOperatorToSQL(_, _, _, _)
RECURSIVE translateNotOps(_, _, _, _, _, _)

\* the loop of the $not case: the non-empty clauses of the nested bag
translateNotOps(quotedKey, sub, i, dialect, paramIdx, acc) ==
  IF i > Len(sub) THEN acc
  ELSE With(translateOperatorToSQL(quotedKey, sub[i], dialect, paramIdx + acc.n),
            LAMBDA r :
              IF r.err # "none" THEN PartsErr(r.err)
              ELSE translateNotOps(quotedKey, sub, i + 1, dialect, paramIdx,
                                   IF r.clause # <<>> THEN Push(acc, r.clause, r.n) ELSE acc))

translateOperatorToSQL(quotedKey, o, dialect, paramIdx) ==
  CASE o.op = "$eq" ->
         IF o.isNull THEN Tr(<<quotedKey, "IS NULL">>, 0)
         ELSE Tr(<<quotedKey, "=", placeholder(dialect, paramIdx)>>, 1)
    [] o.op = "$ne" ->
         IF o.isNull THEN Tr(<<quotedKey, "IS NOT NULL">>, 0)
         ELSE Tr(<<quotedKey, "!=", placeholder(dialect, paramIdx)>>, 1)
    [] o.op \in {"$gt", "$gte", "$lt", "$lte"} ->
         Tr(<<quotedKey,
              (CASE o.op = "$gt" -> ">" [] o.op = "$gte" -> ">="
                 [] o.op = "$lt" -> "<" [] o.op = "$lte" -> "<="),
              placeholder(dialect, paramIdx)>>, 1)
    [] o.op \in {"$in", "$nin"} ->
         IF o.n = 0 THEN Tr(<<(IF o.op = "$in" THEN "1=0" ELSE "1=1")>>, 0)
         ELSE Tr(<<quotedKey, (IF o.op = "$in" THEN "IN" ELSE "NOT IN"), "(">>
                 \o placeholderList(dialect, paramIdx, o.n) \o <<")">>, o.n)
    [] o.op = "$exists" ->
         IF o.truthy THEN Tr(<<quotedKey, "IS NOT NULL">>, 0)
         ELSE Tr(<<quotedKey, "IS NULL">>, 0)
    [] o.op = "$regex" -> translateRegexToSQL(quotedKey, dialect, paramIdx)
    [] o.op = "$options" -> Tr(<<>>, 0)
    [] o.op = "$not" ->
         With(translateNotOps(quotedKey, o.sub, 1, dialect, paramIdx, NoParts),
              LAMBDA r :
                IF r.err # "none" THEN TrErr(r.err)
                ELSE IF Len(r.parts) = 0 THEN Tr(<<>>, 0)
                ELSE Tr(<<"NOT", "(">> \o Join(r.parts, "AND") \o <<")">>, r.n))
    [] o.op = "$size" ->
         Tr(<<(CASE dialect = "pg" -> "jsonb_array_length"
                 [] dialect = "mysql2" -> "JSON_LENGTH"
                 [] OTHER -> "json_array_length"),
              "(", quotedKey, ")", "=", placeholder(dialect, paramIdx)>>, 1)
    [] OTHER -> TrErr("UNKNOWN_OPERATOR")

RECURSIVE translateToSQL(_, _, _)
RECURSIVE translateEntries(_, _, _, _, _)
RECURSIVE translateSubFilters(_, _, _, _, _)
RECURSIVE translateBag(_, _, _, _, _, _)

\* the loop with every operator translated at the start index
RECURSIVE translateBagFixedIdx(_, _, _, _, _, _)
translateBagFixedIdx(quotedKey, ops, i, dialect, startIdx, acc) ==
  IF i > Len(ops) THEN acc
  ELSE With(translateOperatorToSQL(quotedKey, ops[i], dialect, startIdx),
            LAMBDA r :
              IF r.err # "none" THEN PartsErr(r.err)
              ELSE translateBagFixedIdx(quotedKey, ops, i + 1, dialect, startIdx,
                                        Push(acc, r.clause, r.n)))

\* the loop over an operator bag: every clause is pushed (an empty one too)
translateBag(quotedKey, ops, i, dialect, startIdx, acc) ==
  IF i > Len(ops) THEN acc
  ELSE With(translateOperatorToSQL(quotedKey, ops[i], dialect, startIdx + acc.n),
            LAMBDA r :
              IF r.err # "none" THEN PartsErr(r.err)
              ELSE translateBag(quotedKey, ops, i + 1, dialect, startIdx,
                                Push(acc, r.clause, r.n)))

\* the loop over the sub-filters of $and/$or/$nor: trivial and empty clauses dropped
translateSubFilters(subs, i, dialect, startIdx, acc) ==
  IF i > Len(subs) THEN acc
  ELSE With(translateToSQL(subs[i], dialect, startIdx + acc.n),
            LAMBDA sub :
              IF sub.err # "none" THEN PartsErr(sub.err)
              ELSE translateSubFilters(subs, i + 1, dialect, startIdx,
                     IF sub.clause # <<>> /\ sub.clause # <<"1=1">>
                     THEN Push(acc, <<"(">> \o sub.clause \o <<")">>, sub.n)
                     ELSE acc))

\* one logical key: the joined sub-clauses, NOT (...) for $nor
translateLogical(key, s, acc) ==
  IF s.err # "none" THEN s
  ELSE IF Len(s.parts) = 0 THEN acc
  ELSE IF key = "$nor"
    THEN Push(acc, <<"NOT", "(">> \o Join(s.parts, "OR") \o <<")">>, s.n)
    ELSE Push(acc, <<"(">> \o Join(s.parts, IF key = "$and" THEN "AND" ELSE "OR")
                   \o <<")">>, s.n)

\* a bag's clauses are pushed one by one onto the conditions
PushAll(acc, b) ==
  IF b.err # "none" THEN b
  ELSE [parts |-> acc.parts \o b.parts, n |-> acc.n + b.n, err |-> "none"]

\* one entry of the filter, pushed onto the conditions so far
translateEntry(e, dialect, startIdx, acc) ==
  IF e.key \in LogicalKeys THEN
    IF Len(e.subs) = 0 THEN acc
    ELSE translateLogical(e.key,
           translateSubFilters(e.subs, 1, dialect, startIdx + acc.n, NoParts), acc)
  ELSE IF e.key \in DollarKeys THEN PartsErr("UNKNOWN_OPERATOR")
  ELSE IF e.kind \in {"null", "undefined"} THEN
    Push(acc, <<quoteIdentifier(e.key), "IS NULL">>, 0)
  ELSE IF e.kind = "bag" THEN
    PushAll(acc, translateBag(quoteIdentifier(e.key), e.ops, 1, dialect,
                              startIdx + acc.n, NoParts))
  ELSE
    Push(acc, <<quoteIdentifier(e.key), "=", placeholder(dialect, startIdx + acc.n)>>, 1)

\* the loop over the entries of a filter
translateEntries(filter, i, dialect, startIdx, acc) ==
  IF i > Len(filter) \/ acc.err # "none" THEN acc
  ELSE translateEntries(filter, i + 1, dialect, startIdx,
                        translateEntry(filter[i], dialect, startIdx, acc))

translateResult(r) ==
  IF r.err # "none" THEN TrErr(r.err)
  ELSE Tr(IF Len(r.parts) > 0 THEN Join(r.parts, "AND") ELSE <<"1=1">>, r.n)

translateToSQL(filter, dialect, startIdx) ==
  IF Len(filter) = 0 THEN Tr(<<"1=1">>, 0)
  ELSE translateResult(translateEntries(filter, 1, dialect, startIdx, NoParts))

\* ------------------------------------------------- SQL update translation
\* An update is [set, inc, unset]: the ordered field names under $set, $inc, $unset
\* (an absent operator and an empty one translate alike).
Update(set, inc, unset) == [set |-> set, inc |-> inc, unset |-> unset]

RECURSIVE setClauseList(_, _, _, _)
setClauseList(fields, i, dialect, idx) ==
  IF i > Len(fields) THEN <<>>
  ELSE << <<quoteIdentifier(fields[i]), "=", placeholder(dialect, idx)>> >>
       \o setClauseList(fields, i + 1, dialect, idx + 1)

RECURSIVE incClauseList(_, _, _, _)
incClauseList(fields, i, dialect, idx) ==
  IF i > Len(fields) THEN <<>>
  ELSE << <<quoteIdentifier(fields[i]), "=", quoteIdentifier(fields[i]), "+",
            placeholder(dialect, idx)>> >>
       \o incClauseList(fields, i + 1, dialect, idx + 1)

unsetClauseList(fields) ==
  [i \in 1..Len(fields) |-> <<quoteIdentifier(fields[i]), "=", "NULL">>]

\* { setClauses, values } or QUERY_ERROR when there is no SET clause
translateUpdateToSQL(update, dialect, startIdx) ==
  LET clauses == setClauseList(update.set, 1, dialect, startIdx)
                 \o incClauseList(update.inc, 1, dialect, startIdx + Len(update.set))
                 \o unsetClauseList(update.unset)
  IN IF Len(clauses) = 0 THEN TrErr("QUERY_ERROR")
     ELSE Tr(Join(clauses, ","), Len(update.set) + Len(update.inc))

\* ------------------------------------------------------ full SQL statements
Sql(sql, n) == [sql |-> sql, n |-> n, err |-> "none"]
SqlErr(code) == [sql |-> <<>>, n |-> 0, err |-> code]

columnList(keys) == Join([i \in 1..Len(keys) |-> <<quoteIdentifier(keys[i])>>], ",")

buildInsertSQL(table, keys, dialect) ==
  Sql(<<"INSERT INTO", quoteIdentifier(table), "(">> \o columnList(keys)
      \o <<")", "VALUES", "(">> \o placeholderList(dialect, 1, Len(keys)) \o <<")">>,
      Len(keys))

\* one statement, one value tuple per document, the column list of the first one
buildBatchInsertSQL(table, docs, dialect) ==
  IF Len(docs) = 0 THEN Sql(<<>>, 0)
  ELSE
    LET keys == docs[1].keys
        tuple(r) == <<"(">> \o placeholderList(dialect, (r - 1) * Len(keys) + 1, Len(keys))
                    \o <<")">>
    IN Sql(<<"INSERT INTO", quoteIdentifier(table), "(">> \o columnList(keys)
           \o <<")", "VALUES">> \o Join([r \in 1..Len(docs) |-> tuple(r)], ","),
           Len(docs) * Len(keys))

\* WHERE <clause>, omitted when the clause is the trivial 1=1
wherePart(where) == IF where.clause # <<"1=1">> THEN <<"WHERE">> \o where.clause ELSE <<>>

buildUpdateSQL(table, filter, update, dialect) ==
  With(translateUpdateToSQL(update, dialect, 1), LAMBDA updateResult :
    IF updateResult.err # "none" THEN SqlErr(updateResult.err)
    ELSE With(translateToSQL(filter, dialect, updateResult.n + 1), LAMBDA where :
      IF where.err # "none" THEN SqlErr(where.err)
      ELSE Sql(<<"UPDATE", quoteIdentifier(table), "SET">> \o updateResult.clause
               \o wherePart(where), updateResult.n + where.n)))

buildDeleteSQL(table, filter, dialect) ==
  With(translateToSQL(filter, dialect, 1), LAMBDA where :
    IF where.err # "none" THEN SqlErr(where.err)
    ELSE Sql(<<"DELETE FROM", quoteIdentifier(table)>> \o wherePart(where), where.n))

\* a sort specification is the sequence of its [field, dir] entries
RECURSIVE translateSortToSQL(_)
translateSortToSQL(sort) ==
  IF Len(sort) = 0 THEN <<>>
  ELSE <<quoteIdentifier(sort[1].field), IF sort[1].dir = -1 THEN "DESC" ELSE "ASC">>
       \o (IF Len(sort) > 1 THEN <<",">> ELSE <<>>) \o translateSortToSQL(Tail(sort))

\* ORDER BY <list>, omitted when the list is empty
orderByPart(sort) ==
  IF Len(sort) = 0 THEN <<>> ELSE <<"ORDER BY">> \o translateSortToSQL(sort)

\* options of a SELECT: sort, limit ({} when undefined, {n} otherwise) and dialect;
\* skip and projection are never passed by the calls modelled here
SelectOptions(sort, limit, dialect) == [sort |-> sort, limit |-> limit, dialect |-> dialect]

\* MSSQL without skip: SELECT TOP(n) when a limit is given
buildMssqlSelectSQL(table, filter, options) ==
  With(translateToSQL(filter, "mssql", 1), LAMBDA where :
    IF where.err # "none" THEN SqlErr(where.err)
    ELSE Sql(<<"SELECT">>
             \o (IF options.limit = {} THEN <<>>
                 ELSE <<"TOP(" \o IntToStr(CHOOSE n \in options.limit : TRUE) \o ")">>)
             \o <<"*", "FROM", quoteIdentifier(table)>> \o wherePart(where)
             \o orderByPart(options.sort), where.n))

\* SELECT * [WHERE ...] [ORDER BY ...] [LIMIT n]
buildSelectSQL(table, filter, options) ==
  IF options.dialect = "mssql" THEN buildMssqlSelectSQL(table, filter, options)
  ELSE With(translateToSQL(filter, options.dialect, 1), LAMBDA where :
    IF where.err # "none" THEN SqlErr(where.err)
    ELSE Sql(<<"SELECT", "*", "FROM", quoteIdentifier(table)>> \o wherePart(where)
             \o orderByPart(options.sort)
             \o (IF options.limit = {} THEN <<>>
                 ELSE <<"LIMIT", IntToStr(CHOOSE n \in options.limit : TRUE)>>),
             where.n))

buildCountSQL(table, filter, dialect) ==
  With(translateToSQL(filter, dialect, 1), LAMBDA where :
    IF where.err # "none" THEN SqlErr(where.err)
    ELSE Sql(<<"SELECT", "COUNT(*)", "as", "count", "FROM", quoteIdentifier(table)>>
             \o wherePart(where), where.n))

\* ------------------------------------------------------ single-row emulation
SubqueryLimit(rowid, collection, whereClause) ==
  <<"WHERE", rowid, "=", "(", "SELECT", rowid, "FROM", quoteIdentifier(collection),
    "WHERE">> \o whereClause \o <<"LIMIT", "1", ")">>

limitUpdateOne(baseSql, collection, whereClause, dialect) ==
  IF whereClause = <<"1=1">> THEN baseSql
  ELSE CASE dialect = "pg" ->
              Replace(baseSql, <<"WHERE">> \o whereClause,
                      SubqueryLimit("ctid", collection, whereClause))
         [] dialect = "mysql2" -> baseSql \o <<"LIMIT", "1">>
         [] dialect = "sqlite" ->
              Replace(baseSql, <<"WHERE">> \o whereClause,
                      SubqueryLimit("rowid", collection, whereClause))
         [] dialect = "mssql" ->
              Replace(baseSql, <<"UPDATE", quoteIdentifier(collection)>>,
                      <<"UPDATE", "TOP(1)", quoteIdentifier(collection)>>)

limitDeleteOne(baseSql, collection, whereClause, dialect) ==
  IF whereClause = <<"1=1">> THEN baseSql
  ELSE CASE dialect = "pg" ->
              Replace(baseSql, <<"WHERE">> \o whereClause,
                      SubqueryLimit("ctid", collection, whereClause))
         [] dialect \in {"mysql2", "sqlite"} -> baseSql \o <<"LIMIT", "1">>
         [] dialect = "mssql" ->
              Replace(baseSql, <<"DELETE FROM", quoteIdentifier(collection)>>,
                      <<"DELETE", "TOP(1)", "FROM", quoteIdentifier(collection)>>)

\* ------------------------------------------------------------- the driver
\* The database behind the pool is a table of `rows` rows.  A statement with a
\* WHERE clause meets m matching rows (the environment's choice, m <= rows); a
\* statement without one meets every row.  A single-row limiter (TOP(1), a final
\* LIMIT 1, or the ctid/rowid subquery) reduces the rows it touches to at most one.
Collection == "users"

Limited(sql) ==
  \/ Contains(sql, "TOP(1)")
  \/ Len(sql) >= 2 /\ sql[Len(sql) - 1] = "LIMIT" /\ sql[Len(sql)] = "1"
  \/ IndexFrom(sql, <<"WHERE", "ctid", "=", "(", "SELECT", "ctid", "FROM">>, 1) > 0
  \/ IndexFrom(sql, <<"WHERE", "rowid", "=", "(", "SELECT", "rowid", "FROM">>, 1) > 0

HasWhere(sql) == Contains(sql, "WHERE")

\* number of value tuples of an INSERT: every "(" but the one of the column list
RECURSIVE CountTok(_, _)
CountTok(s, tok) ==
  IF Len(s) = 0 THEN 0
  ELSE (IF s[1] = tok THEN 1 ELSE 0) + CountTok(Tail(s), tok)

DriverExec(sql, rows, m) ==
  LET cand == IF HasWhere(sql) THEN m ELSE rows
      hit == IF Limited(sql) THEN Min(1, cand) ELSE cand
  IN CASE sql[1] = "UPDATE" -> [rowCount |-> hit, rows |-> rows]
       [] sql[1] \in {"DELETE FROM", "DELETE"} -> [rowCount |-> hit, rows |-> rows - hit]
       [] sql[1] = "INSERT INTO" ->
            LET k == CountTok(sql, "(") - 1 IN [rowCount |-> k, rows |-> rows + k]
       [] OTHER -> [rowCount |-> hit, rows |-> rows]

\* one executed statement: its text, the handle it went to ("pool" or "tx"), the
\* operation that issued it, and the affected-row count the driver reported
Stmt(sql, handle, rowCount) == [sql |-> sql, handle |-> handle, rowCount |-> rowCount]

\* ------------------------------------------------------------------ errors
StrictErrorCodes ==
  {"CONNECTION_FAILED", "CONNECTION_LOST", "AUTHENTICATION_FAILED", "TIMEOUT",
   "POOL_EXHAUSTED", "DUPLICATE_KEY", "VALIDATION_ERROR", "COLLECTION_NOT_FOUND",
   "QUERY_ERROR", "GUARDRAIL_BLOCKED", "UNKNOWN_OPERATOR", "SCHEMA_MISMATCH",
   "UNSUPPORTED_OPERATION", "INTERNAL_ERROR"}

\* the codes ERROR_RETRYABLE marks true
ERROR_RETRYABLE == {"CONNECTION_FAILED", "CONNECTION_LOST", "TIMEOUT", "POOL_EXHAUSTED"}

\* An error value.  kind "strict" is a StrictDBError, kind "native" an error object
\* of a driver: its code (or HTTP status), the phrases its message includes and,
\* for Elasticsearch, the error type of the response body.
NoError ==
  [kind |-> "none", code |-> "none", phrases |-> {}, type |-> "none",
   retryable |-> FALSE, backend |-> "none"]

\* new StrictDBError(opts): retryable is opts.retryable ?? false; `retryable` is the
\* set holding the option when it is given
StrictDBError(code, backend, retryable) ==
  [kind |-> "strict", code |-> code, phrases |-> {}, type |-> "none",
   retryable |-> (TRUE \in retryable), backend |-> backend]

NativeError(code, phrases, type) ==
  [kind |-> "native", code |-> code, phrases |-> phrases, type |-> type,
   retryable |-> FALSE, backend |-> "none"]

mapMongoError(e) ==
  IF e.code = "11000" THEN StrictDBError("DUPLICATE_KEY", "mongo", {})
  ELSE IF e.phrases \cap {"topology was destroyed", "TopologyDescription",
                          "Server selection timed out"} # {}
    THEN StrictDBError("CONNECTION_LOST", "mongo", {TRUE})
  ELSE IF e.code = "18" \/ e.phrases \cap {"Authentication failed", "EAUTH"} # {}
    THEN StrictDBError("AUTHENTICATION_FAILED", "mongo", {})
  ELSE IF e.phrases \cap {"ECONNREFUSED", "connect ENOTFOUND"} # {}
    THEN StrictDBError("CONNECTION_FAILED", "mongo", {TRUE})
  ELSE IF e.phrases \cap {"timed out", "maxTimeMS"} # {}
    THEN StrictDBError("TIMEOUT", "mongo", {TRUE})
  ELSE StrictDBError("INTERNAL_ERROR", "mongo", {})

mapSqlError(e) ==
  IF e.code \in {"23505", "ER_DUP_ENTRY"} \/ "UNIQUE constraint failed" \in e.phrases
    THEN StrictDBError("DUPLICATE_KEY", "sql", {})
  ELSE IF e.code = "ECONNREFUSED"
          \/ e.phrases \cap {"ECONNREFUSED", "connect ENOTFOUND"} # {}
    THEN StrictDBError("CONNECTION_FAILED", "sql", {TRUE})
  ELSE IF e.code = "57014"
          \/ "canceling statement due to statement timeout" \in e.phrases
    THEN StrictDBError("TIMEOUT", "sql", {TRUE})
  ELSE IF e.code \in {"28P01", "28000"} \/ "password authentication failed" \in e.phrases
    THEN StrictDBError("AUTHENTICATION_FAILED", "sql", {})
  ELSE IF e.code = "42P01" \/ e.phrases \cap {"no such table", "does not exist"} # {}
    THEN StrictDBError("COLLECTION_NOT_FOUND", "sql", {})
  ELSE IF {"timeout exceeded", "pool"} \subseteq e.phrases
    THEN StrictDBError("POOL_EXHAUSTED", "sql", {TRUE})
  ELSE StrictDBError("INTERNAL_ERROR", "sql", {})

mapElasticError(e) ==
  IF e.code = "409" THEN StrictDBError("DUPLICATE_KEY", "elastic", {})
  ELSE IF e.code \in {"401", "403"}
    THEN StrictDBError("AUTHENTICATION_FAILED", "elastic", {})
  ELSE IF e.code = "404" \/ e.type = "index_not_found_exception"
    THEN StrictDBError("COLLECTION_NOT_FOUND", "elastic", {})
  ELSE IF e.phrases \cap {"ConnectionError", "ECONNREFUSED", "connect ENOTFOUND"} # {}
    THEN StrictDBError("CONNECTION_FAILED", "elastic", {TRUE})
  ELSE IF e.phrases \cap {"TimeoutError", "Request timed out"} # {}
    THEN StrictDBError("TIMEOUT", "elastic", {TRUE})
  ELSE StrictDBError("INTERNAL_ERROR", "elastic", {})

mapNativeError(backend, err) ==
  IF err.kind = "strict" THEN err
  ELSE CASE backend = "mongo" -> mapMongoError(err)
         [] backend = "sql" -> mapSqlError(err)
         [] backend = "elastic" -> mapElasticError(err)

\* ---------------------------------------------------------------- receipts
createReceipt(operation, collection, backend, matched, modified, inserted, deleted) ==
  [operation |-> operation, collection |-> collection, success |-> TRUE,
   matchedCount |-> matched, modifiedCount |-> modified,
   insertedCount |-> inserted, deletedCount |-> deleted, backend |-> backend]

NoReceipt ==
  [operation |-> "none", collection |-> "none", success |-> FALSE,
   matchedCount |-> 0, modifiedCount |-> 0, insertedCount |-> 0, deletedCount |-> 0,
   backend |-> "none"]

\* ------------------------------------------------------ relational adapter
\* The result of an adapter call: the statements it executed, the table afterwards,
\* and either a receipt (ok) or the code of the StrictDBError it threw.  `m` is the
\* number of rows matching the filter, `fail` the index of the statement on which
\* the driver raises (0: none); a driver error is mapped by mapNativeError and is
\* written "NATIVE" here, a StrictDBError thrown by the translator passes unchanged.
Done(stmts, rows, receipt, doc) ==
  [stmts |-> stmts, rows |-> rows, ok |-> TRUE, code |-> "none", receipt |-> receipt,
   doc |-> doc, value |-> "none"]
Threw(stmts, rows, code) ==
  [stmts |-> stmts, rows |-> rows, ok |-> FALSE, code |-> code, receipt |-> NoReceipt,
   doc |-> <<>>, value |-> "none"]
Value(stmts, rows, value) ==
  [stmts |-> stmts, rows |-> rows, ok |-> TRUE, code |-> "none", receipt |-> NoReceipt,
   doc |-> <<>>, value |-> value]

\* the document of the upsert INSERT: [key, from] in Object.keys order, a later
\* assignment to an existing key overwriting it in place
RECURSIVE PutKey(_, _, _)
PutKey(doc, key, from) ==
  IF Len(doc) = 0 THEN << [key |-> key, from |-> from] >>
  ELSE IF doc[1].key = key THEN << [key |-> key, from |-> from] >> \o Tail(doc)
  ELSE <<doc[1]>> \o PutKey(Tail(doc), key, from)

RECURSIVE upsertFilterFields(_, _, _)
upsertFilterFields(filter, i, doc) ==
  IF i > Len(filter) THEN doc
  ELSE upsertFilterFields(filter, i + 1,
         IF filter[i].key \notin DollarKeys
            /\ filter[i].kind \in {"scalar", "undefined", "null", "date"}
         THEN PutKey(doc, filter[i].key, "filter") ELSE doc)

RECURSIVE upsertSetFields(_, _, _)
upsertSetFields(set, i, doc) ==
  IF i > Len(set) THEN doc
  ELSE upsertSetFields(set, i + 1, PutKey(doc, set[i], "$set"))

\* an upsert document that forgets the filter's equality fields
upsertDocSetOnly(filter, update) == upsertSetFields(update.set, 1, <<>>)

upsertDoc(filter, update) ==
  upsertSetFields(update.set, 1, upsertFilterFields(filter, 1, <<>>))

DocKeys(doc) == [i \in 1..Len(doc) |-> doc[i].key]

\* the second statement of an upsert: the INSERT of the merged document
upsertInsert(handle, collection, doc, dialect, first, rows, fail) ==
  With(buildInsertSQL(collection, DocKeys(doc), dialect).sql, LAMBDA insertSql :
    IF fail = 2 THEN Threw(<<first>>, rows, "NATIVE")
    ELSE With(DriverExec(insertSql, rows, 0), LAMBDA ins :
      Done(<<first, Stmt(insertSql, handle, ins.rowCount)>>, ins.rows,
           createReceipt("updateOne", collection, "sql", 0, 0, 1, 0), doc)))

\* UPDATE (limited to one row), then INSERT when no row was affected
performUpsert(handle, collection, filter, update, dialect, rows, m, fail) ==
  With(buildUpdateSQL(collection, filter, update, dialect), LAMBDA updateQuery :
    IF updateQuery.err # "none" THEN Threw(<<>>, rows, updateQuery.err)
    ELSE With(limitUpdateOne(updateQuery.sql, collection,
                             translateToSQL(filter, dialect, 1).clause, dialect),
              LAMBDA limitedSql :
      IF fail = 1 THEN Threw(<<>>, rows, "NATIVE")
      ELSE With(DriverExec(limitedSql, rows, m), LAMBDA result :
        IF result.rowCount > 0
        THEN Done(<<Stmt(limitedSql, handle, result.rowCount)>>, result.rows,
                  createReceipt("updateOne", collection, "sql",
                                result.rowCount, result.rowCount, 0, 0), <<>>)
        ELSE upsertInsert(handle, collection, upsertDoc(filter, update), dialect,
                          Stmt(limitedSql, handle, result.rowCount), result.rows, fail))))

sqlUpdateOne(handle, collection, filter, update, upsert, dialect, rows, m, fail) ==
  IF upsert THEN performUpsert(handle, collection, filter, update, dialect, rows, m, fail)
  ELSE With(buildUpdateSQL(collection, filter, update, dialect), LAMBDA query :
    IF query.err # "none" THEN Threw(<<>>, rows, query.err)
    ELSE With(limitUpdateOne(query.sql, collection,
                             translateToSQL(filter, dialect, 1).clause, dialect),
              LAMBDA limitedSql :
      IF fail = 1 THEN Threw(<<>>, rows, "NATIVE")
      ELSE With(DriverExec(limitedSql, rows, m), LAMBDA result :
        Done(<<Stmt(limitedSql, handle, result.rowCount)>>, result.rows,
             createReceipt("updateOne", collection, "sql",
                           result.rowCount, result.rowCount, 0, 0), <<>>))))

sqlUpdateMany(handle, collection, filter, update, dialect, rows, m, fail) ==
  With(buildUpdateSQL(collection, filter, update, dialect), LAMBDA query :
    IF query.err # "none" THEN Threw(<<>>, rows, query.err)
    ELSE IF fail = 1 THEN Threw(<<>>, rows, "NATIVE")
    ELSE With(DriverExec(query.sql, rows, m), LAMBDA result :
      Done(<<Stmt(query.sql, handle, result.rowCount)>>, result.rows,
           createReceipt("updateMany", collection, "sql",
                         result.rowCount, result.rowCount, 0, 0), <<>>)))

sqlDeleteOne(handle, collection, filter, dialect, rows, m, fail) ==
  With(buildDeleteSQL(collection, filter, dialect), LAMBDA query :
    IF query.err # "none" THEN Threw(<<>>, rows, query.err)
    ELSE With(limitDeleteOne(query.sql, collection,
                             translateToSQL(filter, dialect, 1).clause, dialect),
              LAMBDA limitedSql :
      IF fail = 1 THEN Threw(<<>>, rows, "NATIVE")
      ELSE With(DriverExec(limitedSql, rows, m), LAMBDA result :
        Done(<<Stmt(limitedSql, handle, result.rowCount)>>, result.rows,
             createReceipt("deleteOne", collection, "sql", 0, 0, 0, result.rowCount),
             <<>>))))

sqlDeleteMany(handle, collection, filter, dialect, rows, m, fail) ==
  With(buildDeleteSQL(collection, filter, dialect), LAMBDA query :
    IF query.err # "none" THEN Threw(<<>>, rows, query.err)
    ELSE IF fail = 1 THEN Threw(<<>>, rows, "NATIVE")
    ELSE With(DriverExec(query.sql, rows, m), LAMBDA result :
      Done(<<Stmt(query.sql, handle, result.rowCount)>>, result.rows,
           createReceipt("deleteMany", collection, "sql", 0, 0, 0, result.rowCount),
           <<>>)))

sqlInsertOne(handle, collection, doc, dialect, rows, fail) ==
  With(buildInsertSQL(collection, doc.keys, dialect).sql, LAMBDA sql :
    IF fail = 1 THEN Threw(<<>>, rows, "NATIVE")
    ELSE With(DriverExec(sql, rows, 0), LAMBDA result :
      Done(<<Stmt(sql, handle, result.rowCount)>>, result.rows,
           createReceipt("insertOne", collection, "sql", 0, 0, 1, 0), <<>>)))

sqlInsertMany(handle, collection, docs, dialect, rows, fail) ==
  With(buildBatchInsertSQL(collection, docs, dialect).sql, LAMBDA sql :
    IF sql = <<>> THEN
      Done(<<>>, rows, createReceipt("insertMany", collection, "sql", 0, 0, Len(docs), 0),
           <<>>)
    ELSE IF fail = 1 THEN Threw(<<>>, rows, "NATIVE")
    ELSE With(DriverExec(sql, rows, 0), LAMBDA result :
      Done(<<Stmt(sql, handle, result.rowCount)>>, result.rows,
           createReceipt("insertMany", collection, "sql", 0, 0, Len(docs), 0), <<>>)))

\* one SELECT, no receipt
sqlSelect(handle, query, rows, m, fail) ==
  IF query.err # "none" THEN Threw(<<>>, rows, query.err)
  ELSE IF fail = 1 THEN Threw(<<>>, rows, "NATIVE")
  ELSE Done(<<Stmt(query.sql, handle, DriverExec(query.sql, rows, m).rowCount)>>, rows,
            NoReceipt, <<>>)

\* queryOne and queryMany
sqlQuery(handle, collection, filter, limit, dialect, rows, m, fail) ==
  sqlSelect(handle, buildSelectSQL(collection, filter, SelectOptions(<<>>, limit, dialect)),
            rows, m, fail)

sqlCount(handle, collection, filter, dialect, rows, m, fail) ==
  sqlSelect(handle, buildCountSQL(collection, filter, dialect), rows, m, fail)

\* LookupOptions: match, lookup { from, localField, foreignField, as, type }, unwind,
\* sort; the limit option is never given by the calls modelled here
Lookup(match, type, sort, unwind) ==
  [match |-> match, from |-> "orders", localField |-> "id", foreignField |-> "user_id",
   as |-> "orders", type |-> type, sort |-> sort, unwind |-> unwind]

\* the second query of a lookup: the related rows, attached as they are returned
lookupRelated(handle, lookup, dialect, first, rows, fail, related) ==
  With(Stmt(<<"SELECT", "*", "FROM", quoteIdentifier(lookup.from)>>
            \o wherePart(translateToSQL(<<Entry(lookup.foreignField, "scalar")>>,
                                        dialect, 1)),
            handle, related),
       LAMBDA second :
         IF fail = 2 THEN Threw(<<first>>, rows, "NATIVE")
         ELSE IF lookup.type = "inner" /\ related = 0
           THEN Value(<<first, second>>, rows, "null")
         ELSE Value(<<first, second>>, rows,
                    IF related = 0 THEN "row+[]" ELSE "row+rows"))

\* two-query lookup: the main row (limit 1), then the related rows.  `localNull`
\* says whether the main row's local field is null, `related` how many rows of the
\* foreign table carry the local value.  The value is "null", "row" (the row with
\* nothing under the alias), "row+[]" (an empty sequence under the alias),
\* "row+rows" (the related rows) or "row+first" (the first related row).
performLookup(handle, collection, lookup, dialect, rows, m, fail, localNull, related) ==
  With(buildSelectSQL(collection, lookup.match, SelectOptions(lookup.sort, {1}, dialect)),
       LAMBDA mainQuery :
    IF mainQuery.err # "none" THEN Threw(<<>>, rows, mainQuery.err)
    ELSE IF fail = 1 THEN Threw(<<>>, rows, "NATIVE")
    ELSE With(Stmt(mainQuery.sql, handle, DriverExec(mainQuery.sql, rows, m).rowCount),
              LAMBDA first :
      IF first.rowCount = 0 THEN Value(<<first>>, rows, "null")
      ELSE IF localNull THEN
        Value(<<first>>, rows, IF lookup.type = "inner" THEN "null" ELSE "row+[]")
      ELSE lookupRelated(handle, lookup, dialect, first, rows, fail, related)))

\* ------------------------------------------------------ search-engine adapter
\* An Elasticsearch query is a token sequence, as the SQL text is.  Operator bags
\* (translateFieldOpsToElastic) are outside the filters given to it here.
ElasticQuery(q) == [q |-> q, err |-> "none"]
ElasticErr(code) == [q |-> <<>>, err |-> code]

\* filters.map(f => translateToElastic(f)), joined; err as soon as one throws
RECURSIVE translateToElastic(_)
RECURSIVE elasticClauses(_, _, _)
elasticClauses(filters, i, acc) ==
  IF acc.err # "none" \/ i > Len(filters) THEN acc
  ELSE With(translateToElastic(filters[i]), LAMBDA c :
         elasticClauses(filters, i + 1,
           IF c.err # "none" THEN c
           ELSE ElasticQuery(acc.q \o (IF i > 1 THEN <<",">> ELSE <<>>) \o c.q)))

\* the clause one entry pushes onto `must`
elasticEntry(e) ==
  IF e.key \in LogicalKeys THEN
    With(elasticClauses(e.subs, 1, ElasticQuery(<<>>)), LAMBDA cs :
      IF cs.err # "none" THEN cs
      ELSE ElasticQuery(<<"bool", CASE e.key = "$and" -> "must"
                                    [] e.key = "$or" -> "should"
                                    [] e.key = "$nor" -> "must_not", "[">>
                        \o cs.q \o <<"]">>))
  ELSE IF e.key \in DollarKeys THEN ElasticErr("UNKNOWN_OPERATOR")
  ELSE IF e.kind \in {"null", "undefined"}
    THEN ElasticQuery(<<"bool", "must_not", "exists", e.key>>)
  ELSE ElasticQuery(<<"term", e.key>>)

RECURSIVE elasticMust(_, _, _)
elasticMust(filter, i, acc) ==
  IF acc.err # "none" \/ i > Len(filter) THEN acc
  ELSE With(elasticEntry(filter[i]), LAMBDA c :
         elasticMust(filter, i + 1,
           IF c.err # "none" THEN c
           ELSE ElasticQuery(acc.q \o (IF i > 1 THEN <<",">> ELSE <<>>) \o c.q)))

translateToElastic(filter) ==
  IF Len(filter) = 0 THEN ElasticQuery(<<"match_all">>)
  ELSE IF Len(filter) = 1 THEN elasticEntry(filter[1])
  ELSE With(elasticMust(filter, 1, ElasticQuery(<<>>)), LAMBDA must :
         IF must.err # "none" THEN must
         ELSE ElasticQuery(<<"bool", "must", "[">> \o must.q \o <<"]">>))

RECURSIVE translateSortToElastic(_)
translateSortToElastic(sort) ==
  IF Len(sort) = 0 THEN <<>>
  ELSE <<sort[1].field, IF sort[1].dir = -1 THEN "desc" ELSE "asc">>
       \o translateSortToElastic(Tail(sort))

\* client.search(params): index, size, the sort when one is given, the query
searchParams(index, size, sort, query) ==
  <<"search", index, "size", IntToStr(size)>>
  \o (IF Len(sort) = 0 THEN <<>> ELSE <<"sort">> \o translateSortToElastic(sort))
  \o <<"query">> \o query

\* ElasticAdapter.queryOne / queryMany: `hits` is the number of documents matching,
\* a driver error is mapped by mapNativeError ("NATIVE")
elasticSearch(index, filter, size, sort, hits, failed) ==
  With(translateToElastic(filter), LAMBDA query :
    IF query.err # "none" THEN Threw(<<>>, 0, query.err)
    ELSE IF failed THEN Threw(<<>>, 0, "NATIVE")
    ELSE Value(<<Stmt(searchParams(index, size, sort, query.q), "elastic",
                      Min(size, hits))>>, 0, "hits"))

\* ElasticAdapter.queryWithLookup: queryOne(collection, match) without options, then
\* queryMany on the foreign index with limit 100 (no limit option is given)
elasticRelated(lookup, first, rows, fail, related) ==
  With(elasticSearch(lookup.from, <<Entry(lookup.foreignField, "scalar")>>, 100, <<>>,
                     related, fail = 2),
       LAMBDA second :
         IF ~second.ok THEN Threw(first.stmts, rows, second.code)
         ELSE Value(first.stmts \o second.stmts, rows,
                    IF lookup.unwind /\ second.stmts[1].rowCount > 0 THEN "row+first"
                    ELSE IF second.stmts[1].rowCount = 0 THEN "row+[]"
                    ELSE "row+rows"))

elasticQueryWithLookup(collection, lookup, rows, m, fail, localNull, related) ==
  With(elasticSearch(collection, lookup.match, 1, <<>>, m, fail = 1), LAMBDA first :
    IF ~first.ok THEN Threw(<<>>, rows, first.code)
    ELSE IF first.stmts[1].rowCount = 0 THEN Value(first.stmts, rows, "null")
    ELSE IF localNull THEN Value(first.stmts, rows, "row")
    ELSE elasticRelated(lookup, first, rows, fail, related))

\* ------------------------------------------- what the translations select
\* Filters with their operand values: an entry or operator carries its values in v.
Equals(k, value) ==
  [key |-> k, kind |-> "scalar", ops |-> <<>>, subs |-> <<>>, v |-> <<value>>]
OpVal(o, values) ==
  [op |-> o, n |-> Len(values), isNull |-> FALSE, truthy |-> TRUE, sub |-> <<>>,
   v |-> values]

\* The WHERE clause of translateToSQL as a tree, each placeholder replaced by the
\* value bound to it. kind: "cmp" (op, field, v), "isnull", "notnull", "in",
\* "notin", "const" (op is "1=1" or "1=0"), "not", "and", "or" (args), and
\* "empty" for the clause ''.
SqlCond(kind, op, field, v, args) ==
  [kind |-> kind, op |-> op, field |-> field, v |-> v, args |-> args]
SqlCmp(op, field, v) == SqlCond("cmp", op, field, v, <<>>)
SqlTest(kind, field) == SqlCond(kind, "", field, <<>>, <<>>)
SqlConst(text) == SqlCond("const", text, "", <<>>, <<>>)
SqlEmpty == SqlCond("empty", "", "", <<>>, <<>>)
SqlJoin(kind, args) == SqlCond(kind, "", "", <<>>, args)

RECURSIVE sqlOperator(_, _)
RECURSIVE sqlNotParts(_, _, _, _)
sqlNotParts(field, sub, i, acc) ==
  IF i > Len(sub) THEN acc
  ELSE sqlNotParts(field, sub, i + 1,
                   IF sqlOperator(field, sub[i]) # SqlEmpty
                     THEN Append(acc, sqlOperator(field, sub[i])) ELSE acc)

sqlOperator(field, o) ==
  CASE o.op = "$eq" -> IF o.isNull THEN SqlTest("isnull", field) ELSE SqlCmp("=", field, o.v)
    [] o.op = "$ne" -> IF o.isNull THEN SqlTest("notnull", field) ELSE SqlCmp("!=", field, o.v)
    [] o.op = "$gt" -> SqlCmp(">", field, o.v)
    [] o.op = "$gte" -> SqlCmp(">=", field, o.v)
    [] o.op = "$lt" -> SqlCmp("<", field, o.v)
    [] o.op = "$lte" -> SqlCmp("<=", field, o.v)
    [] o.op = "$in" ->
         IF o.n = 0 THEN SqlConst("1=0") ELSE SqlCond("in", "", field, o.v, <<>>)
    [] o.op = "$nin" ->
         IF o.n = 0 THEN SqlConst("1=1") ELSE SqlCond("notin", "", field, o.v, <<>>)
    [] o.op = "$exists" ->
         IF o.truthy THEN SqlTest("notnull", field) ELSE SqlTest("isnull", field)
    [] o.op = "$not" ->
         IF sqlNotParts(field, o.sub, 1, <<>>) = <<>> THEN SqlEmpty
         ELSE SqlJoin("not", <<SqlJoin("and", sqlNotParts(field, o.sub, 1, <<>>))>>)
    [] OTHER -> SqlEmpty

\* parts.join(' AND '), or '1=1' without parts
sqlClause(parts) == IF Len(parts) > 0 THEN SqlJoin("and", parts) ELSE SqlConst("1=1")

\* sub.clause !== '1=1': the text is '1=1' without parts or with that one part
sqlTrivial(parts) == parts = <<>> \/ parts = <<SqlConst("1=1")>>

RECURSIVE sqlParts(_, _, _)
RECURSIVE sqlSubClauses(_, _, _)
sqlSubClauses(subs, i, acc) ==
  IF i > Len(subs) THEN acc
  ELSE sqlSubClauses(subs, i + 1,
                     IF sqlTrivial(sqlParts(subs[i], 1, <<>>)) THEN acc
                     ELSE Append(acc, sqlClause(sqlParts(subs[i], 1, <<>>))))

sqlEntry(e) ==
  IF e.key \in LogicalKeys THEN
    IF sqlSubClauses(e.subs, 1, <<>>) = <<>> THEN <<>>
    ELSE IF e.key = "$nor"
      THEN <<SqlJoin("not", <<SqlJoin("or", sqlSubClauses(e.subs, 1, <<>>))>>)>>
      ELSE <<SqlJoin(IF e.key = "$and" THEN "and" ELSE "or", sqlSubClauses(e.subs, 1, <<>>))>>
  ELSE IF e.kind \in {"null", "undefined"} THEN <<SqlTest("isnull", e.key)>>
  ELSE IF e.kind = "bag" THEN [i \in 1..Len(e.ops) |-> sqlOperator(e.key, e.ops[i])]
  ELSE <<SqlCmp("=", e.key, e.v)>>

sqlParts(filter, i, acc) ==
  IF i > Len(filter) THEN acc ELSE sqlParts(filter, i + 1, acc \o sqlEntry(filter[i]))

sqlWhere(filter) == sqlClause(sqlParts(filter, 1, <<>>))

\* A document gives each field the set of its values: empty for a missing field,
\* which the table holds as NULL. SQL conditions have three values; a row is
\* selected when the WHERE clause is "T".
Compare(op, x, y) ==
  CASE op = "=" -> x = y [] op = "!=" -> x # y [] op = ">" -> x > y
    [] op = ">=" -> x >= y [] op = "<" -> x < y [] op = "<=" -> x <= y
    [] op = "gt" -> x > y [] op = "gte" -> x >= y [] op = "lt" -> x < y
    [] op = "lte" -> x <= y

Truth(b) == IF b THEN "T" ELSE "F"

RECURSIVE sqlEval(_, _)
sqlEval(c, doc) ==
  CASE c.kind = "const" -> Truth(c.op = "1=1")
    [] c.kind = "isnull" -> Truth(doc[c.field] = {})
    [] c.kind = "notnull" -> Truth(doc[c.field] # {})
    [] c.kind = "cmp" ->
         IF doc[c.field] = {} THEN "U"
         ELSE Truth(\E x \in doc[c.field] : Compare(c.op, x, c.v[1]))
    [] c.kind = "in" ->
         IF doc[c.field] = {} THEN "U"
         ELSE Truth(\E x \in doc[c.field] : \E i \in 1..Len(c.v) : x = c.v[i])
    [] c.kind = "notin" ->
         IF doc[c.field] = {} THEN "U"
         ELSE Truth(\A x \in doc[c.field] : \A i \in 1..Len(c.v) : x # c.v[i])
    [] c.kind = "not" ->
         CASE sqlEval(c.args[1], doc) = "T" -> "F"
           [] sqlEval(c.args[1], doc) = "F" -> "T"
           [] OTHER -> "U"
    [] c.kind = "and" ->
         IF \E i \in 1..Len(c.args) : sqlEval(c.args[i], doc) = "F" THEN "F"
         ELSE IF \A i \in 1..Len(c.args) : sqlEval(c.args[i], doc) = "T" THEN "T"
         ELSE "U"
    [] c.kind = "or" ->
         IF \E i \in 1..Len(c.args) : sqlEval(c.args[i], doc) = "T" THEN "T"
         ELSE IF \A i \in 1..Len(c.args) : sqlEval(c.args[i], doc) = "F" THEN "F"
         ELSE "U"

sqlSelects(filter, doc) == sqlEval(sqlWhere(filter), doc) = "T"

\* The query of translateToElastic as a tree. kind: "match_all", "term", "terms",
\* "exists", "range" (v holds the bounds), "bool" (must, should, mustNot; msm is
\* minimum_should_match, 0 when not given).
EsQuery(kind, field, v, must, should, mustNot, msm) ==
  [kind |-> kind, field |-> field, v |-> v, must |-> must, should |-> should,
   mustNot |-> mustNot, msm |-> msm]
EsLeaf(kind, field, v) == EsQuery(kind, field, v, <<>>, <<>>, <<>>, 0)
EsMatchAll == EsLeaf("match_all", "", <<>>)
EsMust(clauses) == EsQuery("bool", "", <<>>, clauses, <<>>, <<>>, 0)
EsShould(clauses) == EsQuery("bool", "", <<>>, <<>>, clauses, <<>>, 1)
EsMustNot(clauses) == EsQuery("bool", "", <<>>, <<>>, <<>>, clauses, 0)
Bound(op, value) == [op |-> op, value |-> value]

RangeOps == {"$gt", "$gte", "$lt", "$lte"}
RangeName(op) ==
  CASE op = "$gt" -> "gt" [] op = "$gte" -> "gte" [] op = "$lt" -> "lt" [] op = "$lte" -> "lte"

\* rangeOps[name] = value: a later operator of the same name replaces the bound
RECURSIVE rangeBounds(_, _, _)
rangeBounds(ops, i, acc) ==
  IF i > Len(ops) THEN acc
  ELSE rangeBounds(ops, i + 1,
         IF ops[i].op \notin RangeOps THEN acc
         ELSE IF \E j \in 1..Len(acc) : acc[j].op = RangeName(ops[i].op)
           THEN [j \in 1..Len(acc) |->
                   IF acc[j].op = RangeName(ops[i].op)
                     THEN Bound(acc[j].op, ops[i].v[1]) ELSE acc[j]]
           ELSE Append(acc, Bound(RangeName(ops[i].op), ops[i].v[1])))

RECURSIVE translateFieldOpsToElastic(_, _)
RECURSIVE elasticFieldClauses(_, _, _, _)
elasticFieldClauses(field, ops, i, acc) ==
  IF i > Len(ops) THEN acc
  ELSE elasticFieldClauses(field, ops, i + 1,
    CASE ops[i].op = "$eq" ->
           Append(acc, IF ops[i].isNull THEN EsMustNot(<<EsLeaf("exists", field, <<>>)>>)
                       ELSE EsLeaf("term", field, ops[i].v))
      [] ops[i].op = "$ne" ->
           Append(acc, IF ops[i].isNull THEN EsLeaf("exists", field, <<>>)
                       ELSE EsMustNot(<<EsLeaf("term", field, ops[i].v)>>))
      [] ops[i].op \in RangeOps -> acc
      [] ops[i].op = "$in" -> Append(acc, EsLeaf("terms", field, ops[i].v))
      [] ops[i].op = "$nin" -> Append(acc, EsMustNot(<<EsLeaf("terms", field, ops[i].v)>>))
      [] ops[i].op = "$exists" ->
           Append(acc, IF ops[i].truthy THEN EsLeaf("exists", field, <<>>)
                       ELSE EsMustNot(<<EsLeaf("exists", field, <<>>)>>))
      [] ops[i].op = "$not" ->
           Append(acc, EsMustNot(translateFieldOpsToElastic(field, ops[i].sub)))
      [] OTHER -> acc)

translateFieldOpsToElastic(field, ops) ==
  elasticFieldClauses(field, ops, 1, <<>>)
  \o (IF \E i \in 1..Len(ops) : ops[i].op \in RangeOps
        THEN <<EsLeaf("range", field, rangeBounds(ops, 1, <<>>))>> ELSE <<>>)

RECURSIVE elasticQuery(_)
elasticMustEntry(e) ==
  IF e.key \in LogicalKeys THEN
    With([i \in 1..Len(e.subs) |-> elasticQuery(e.subs[i])], LAMBDA clauses :
      <<CASE e.key = "$and" -> EsMust(clauses)
          [] e.key = "$or" -> EsShould(clauses)
          [] e.key = "$nor" -> EsMustNot(clauses)>>)
  ELSE IF e.kind \in {"null", "undefined"}
    THEN <<EsMustNot(<<EsLeaf("exists", e.key, <<>>)>>)>>
  ELSE IF e.kind = "bag" THEN translateFieldOpsToElastic(e.key, e.ops)
  ELSE <<EsLeaf("term", e.key, e.v)>>

RECURSIVE elasticMustClauses(_, _, _)
elasticMustClauses(filter, i, acc) ==
  IF i > Len(filter) THEN acc
  ELSE elasticMustClauses(filter, i + 1, acc \o elasticMustEntry(filter[i]))

elasticQuery(filter) ==
  IF Len(filter) = 0 THEN EsMatchAll
  ELSE With(elasticMustClauses(filter, 1, <<>>), LAMBDA must :
         IF Len(must) = 0 THEN EsMatchAll
         ELSE IF Len(must) = 1 THEN must[1]
         ELSE EsMust(must))

\* Query DSL semantics: a term, terms, exists or range clause matches only a
\* document that has the field; a bool query without any clause matches every
\* document; otherwise every must clause matches, no must_not clause does and,
\* when should clauses are given with minimum_should_match 1, one of them does.
RECURSIVE esMatches(_, _)
esMatches(q, doc) ==
  CASE q.kind = "match_all" -> TRUE
    [] q.kind = "term" -> \E x \in doc[q.field] : x = q.v[1]
    [] q.kind = "terms" -> \E x \in doc[q.field] : \E i \in 1..Len(q.v) : x = q.v[i]
    [] q.kind = "exists" -> doc[q.field] # {}
    [] q.kind = "range" ->
         \E x \in doc[q.field] : \A i \in 1..Len(q.v) : Compare(q.v[i].op, x, q.v[i].value)
    [] q.kind = "bool" ->
         IF Len(q.must) + Len(q.should) + Len(q.mustNot) = 0 THEN TRUE
         ELSE /\ \A i \in 1..Len(q.must) : esMatches(q.must[i], doc)
              /\ \A i \in 1..Len(q.mustNot) : ~esMatches(q.mustNot[i], doc)
              /\ (q.msm > 0 /\ Len(q.should) > 0) =>
                   \E i \in 1..Len(q.should) : esMatches(q.should[i], doc)

elasticSelects(filter, doc) == esMatches(elasticQuery(filter), doc)

\* -------------------------------------------------------------- sanitizer
\* the top-level keys only
validateFieldsTopLevel(filter, validFields) ==
  \A i \in 1..Len(filter) :
    filter[i].key \in DollarKeys \/ filter[i].key \in validFields

RECURSIVE validateFieldsRecursive(_, _)
validateFieldsRecursive(filter, validFields) ==
  \A i \in 1..Len(filter) :
    IF filter[i].key \in LogicalKeys
      THEN \A j \in 1..Len(filter[i].subs) :
             validateFieldsRecursive(filter[i].subs[j], validFields)
    ELSE IF filter[i].key \in DollarKeys THEN TRUE
    ELSE filter[i].key \in validFields

\* TRUE when the filter passes; no schema registered: no check
validateFilterFields(cache, collection, filter) ==
  IF collection \notin DOMAIN cache THEN TRUE
  ELSE validateFieldsRecursive(filter, cache[collection])

\* TRUE when the filter passes (FALSE: QUERY_ERROR is thrown)
sanitizeFilter(cache, collection, filter, backend) ==
  CASE backend = "mongo" -> TRUE
    [] backend = "sql" -> validateFilterFields(cache, collection, filter)
    [] OTHER -> validateFilterFields(cache, collection, filter)

\* a $regex pattern: its characters, followed by `pad` further letters
Pattern(chars, pad) == [chars |-> chars, pad |-> pad]

MaxPatternLength == 1000

\* /(\(.+[+*]\))[+*]|\(\?[^)]*[+*][^)]*\)[+*]/.test(pattern)
nestedQuantifier(chars) ==
  \/ \E i \in 1..Len(chars), j \in 1..(Len(chars) - 1) :
       /\ chars[i] = "("
       /\ j >= i + 3
       /\ chars[j - 1] \in {"+", "*"}
       /\ chars[j] = ")"
       /\ chars[j + 1] \in {"+", "*"}
  \/ \E i \in 1..(Len(chars) - 1), j \in 1..(Len(chars) - 1) :
       /\ chars[i] = "("
       /\ chars[i + 1] = "?"
       /\ j >= i + 3
       /\ chars[j] = ")"
       /\ \A t \in (i + 2)..(j - 1) : chars[t] # ")"
       /\ \E k \in (i + 2)..(j - 1) : chars[k] \in {"+", "*"}
       /\ chars[j + 1] \in {"+", "*"}

\* TRUE when the pattern passes (FALSE: QUERY_ERROR is thrown)
validateRegexComplexity(pattern) ==
  /\ ~nestedQuantifier(pattern.chars)
  /\ ~(Len(pattern.chars) + pattern.pad > MaxPatternLength)

\* -------------------------------------------------------------- guardrails
isEmptyFilter(filter) == Len(filter) = 0

GuardEvent(collection, operation, reason) ==
  [type |-> "guardrail-blocked", collection |-> collection, operation |-> operation,
   reason |-> reason]

\* emitAndThrow: the event is emitted, then the error thrown; steps is the order
\* of the two effects
emitAndThrow(collection, operation, message) ==
  [threw |-> TRUE, code |-> "GUARDRAIL_BLOCKED",
   events |-> <<GuardEvent(collection, operation, message)>>,
   steps |-> <<"emit", "throw">>]

Passed == [threw |-> FALSE, code |-> "none", events |-> <<>>, steps |-> <<>>]

\* a guard that takes no confirmation token and lets unbounded reads through
checkGuardrailsNoConfirm(enabled, operation, collection, filter, confirm, limit) ==
  IF enabled /\ operation \in {"deleteMany", "updateMany", "deleteOne"}
     /\ isEmptyFilter(filter)
  THEN emitAndThrow(collection, operation, "requires a non-empty filter")
  ELSE Passed

\* confirm is "undefined" or the token given; limit is {} (undefined) or {n}
checkGuardrails(enabled, operation, collection, filter, confirm, limit) ==
  IF ~enabled THEN Passed
  ELSE
    CASE operation = "deleteMany" ->
           IF isEmptyFilter(filter) /\ confirm # "DELETE_ALL"
           THEN emitAndThrow(collection, operation, "deleteMany requires a non-empty filter")
           ELSE Passed
      [] operation = "updateMany" ->
           IF isEmptyFilter(filter) /\ confirm # "UPDATE_ALL"
           THEN emitAndThrow(collection, operation, "updateMany requires a non-empty filter")
           ELSE Passed
      [] operation = "deleteOne" ->
           IF isEmptyFilter(filter)
           THEN emitAndThrow(collection, operation, "deleteOne requires a non-empty filter")
           ELSE Passed
      [] operation = "queryMany" ->
           IF limit = {}
           THEN emitAndThrow(collection, operation, "queryMany without a limit")
           ELSE Passed
      [] OTHER -> Passed

\* -------------------------------------------------------------- timestamps
AddKey(keys, k) == IF \E i \in 1..Len(keys) : keys[i] = k THEN keys ELSE Append(keys, k)

injectInsertTimestamps(doc, enabled) ==
  IF ~enabled THEN doc
  ELSE [doc EXCEPT !.keys = AddKey(AddKey(@, "created_at"), "updated_at")]

injectUpdateTimestamps(update, enabled) ==
  IF ~enabled THEN update
  ELSE [update EXCEPT !.set = AddKey(@, "updated_at")]

\* A JavaScript object is the ordered sequence of its own entries; a value is
\* undefined, a scalar, a Date or an object.
Val(t, s, o) == [t |-> t, s |-> s, o |-> o]
Undefined == Val("undefined", "", <<>>)
Scalar(s) == Val("scalar", s, <<>>)
Date(now) == Val("date", now, <<>>)
Object(entries) == Val("object", "", entries)
KV(k, v) == [k |-> k, v |-> v]

ObjectKeys(obj) == { obj[i].k : i \in 1..Len(obj) }
\* obj[k]
Get(obj, k) ==
  IF k \in ObjectKeys(obj) THEN obj[CHOOSE i \in 1..Len(obj) : obj[i].k = k].v
  ELSE Undefined
\* obj[k] = v
Put(obj, k, v) ==
  IF k \in ObjectKeys(obj)
    THEN [i \in 1..Len(obj) |-> IF obj[i].k = k THEN KV(k, v) ELSE obj[i]]
    ELSE Append(obj, KV(k, v))

\* the timestamps option of the configuration: undefined, false, true, or field
\* names, either of which may be left out ("" is an omitted name)
TimestampOption(kind, createdAt, updatedAt) ==
  [kind |-> kind, createdAt |-> createdAt, updatedAt |-> updatedAt]

resolveTimestampConfig(config) ==
  IF config.kind \in {"undefined", "false"}
    THEN [enabled |-> FALSE, createdAt |-> "created_at", updatedAt |-> "updated_at"]
  ELSE IF config.kind = "true"
    THEN [enabled |-> TRUE, createdAt |-> "created_at", updatedAt |-> "updated_at"]
  ELSE [enabled |-> TRUE,
        createdAt |-> IF config.createdAt = "" THEN "created_at" ELSE config.createdAt,
        updatedAt |-> IF config.updatedAt = "" THEN "updated_at" ELSE config.updatedAt]

\* What a call leaves behind: arg is the caller's object after the call, ref says
\* whether the returned reference is the argument itself or a new object, obj is
\* the returned object.
Returned(arg, ref, obj) == [arg |-> arg, ref |-> ref, obj |-> obj]

PutIfAbsent(obj, k, v) == IF k \in ObjectKeys(obj) THEN obj ELSE Put(obj, k, v)

injectInsertTimestampsOverwrite(doc, config, now) ==
  IF ~config.enabled THEN Returned(doc, "arg", doc)
  ELSE Returned(doc, "fresh",
                Put(Put(doc, config.createdAt, Date(now)), config.updatedAt, Date(now)))

injectInsertTimestampsObject(doc, config, now) ==
  IF ~config.enabled THEN Returned(doc, "arg", doc)
  ELSE Returned(doc, "fresh",
                PutIfAbsent(PutIfAbsent(doc, config.createdAt, Date(now)),
                            config.updatedAt, Date(now)))

\* existing$set is tested for truthiness: an object, even an empty one, is truthy
injectUpdateTimestampsObject(update, config, now) ==
  IF ~config.enabled THEN Returned(update, "arg", update)
  ELSE IF Get(update, "$set").t = "object"
    THEN IF config.updatedAt \in ObjectKeys(Get(update, "$set").o)
           THEN Returned(update, "fresh", update)
           ELSE Returned(update, "fresh",
                         Put(update, "$set",
                             Object(Append(Get(update, "$set").o,
                                           KV(config.updatedAt, Date(now))))))
    ELSE Returned(update, "fresh",
                  Put(update, "$set", Object(<<KV(config.updatedAt, Date(now))>>)))

\* ---------------------------------------------------------- sanitize rules
\* A rule: field is undefined, '*', a string or an array (names holds the names);
\* transform names one of the caller's functions.
SanitizeRule(field, names, transform) ==
  [field |-> field, names |-> names, transform |-> transform]

\* rule.transform(value, key, collection) for three caller functions:
\* v => typeof v === 'string' ? v.trim() : v, the same with toLowerCase(), and
\* one that masks the value 'tim' of the key name
transform(t, value, key, collection) ==
  IF value.t # "scalar" THEN value
  ELSE CASE t = "trim" ->
              Scalar(CASE value.s = "  TIM  " -> "TIM" [] value.s = "  tim  " -> "tim"
                       [] OTHER -> value.s)
         [] t = "lower" ->
              Scalar(CASE value.s = "  TIM  " -> "  tim  " [] value.s = "TIM" -> "tim"
                       [] OTHER -> value.s)
         [] t = "mask" ->
              IF key = "name" /\ value.s = "tim" THEN Scalar("***") ELSE value
         [] OTHER -> value

RECURSIVE transformKeys(_, _, _, _)
transformKeys(result, keys, rule, collection) ==
  IF keys = <<>> THEN result
  ELSE transformKeys(
         IF Head(keys) \in ObjectKeys(result)
           THEN Put(result, Head(keys),
                    transform(rule.transform, Get(result, Head(keys)), Head(keys), collection))
           ELSE result,
         Tail(keys), rule, collection)

applyRule(result, rule, collection) ==
  IF rule.field \in {"undefined", "*"}
    THEN transformKeys(result, [i \in 1..Len(result) |-> result[i].k], rule, collection)
  ELSE IF rule.field \in {"string", "array"}
    THEN transformKeys(result, rule.names, rule, collection)
  ELSE result

RECURSIVE applyRules(_, _, _)
applyRules(result, rules, collection) ==
  IF rules = <<>> THEN result
  ELSE applyRules(applyRule(result, Head(rules), collection), Tail(rules), collection)

applySanitizeRulesReversed(data, collection, rules) ==
  IF Len(rules) = 0 THEN Returned(data, "arg", data)
  ELSE Returned(data, "fresh",
                applyRules(data, [i \in 1..Len(rules) |-> rules[Len(rules) + 1 - i]],
                           collection))

applySanitizeRules(data, collection, rules) ==
  IF Len(rules) = 0 THEN Returned(data, "arg", data)
  ELSE Returned(data, "fresh", applyRules(data, rules, collection))

\* ------------------------------------------------------------------ schema
\* A Zod schema: its type name and the keys of its object shape (for ZodEffects,
\* of the object it wraps).
Schema(typeName, fields) == [typeName |-> typeName, fields |-> fields]

\* schema.ts: the whitelist follows ZodEffects down to the object
extractFieldNames(schema) ==
  IF schema.typeName \in {"ZodObject", "ZodEffects"} THEN schema.fields ELSE {}

\* strictdb.ts: the names describe() and validate() use; only a ZodObject has any
extractFieldInfo(schema) ==
  IF schema.typeName = "ZodObject" THEN schema.fields ELSE {}

\* safeParse of the registered schema: a document carries whether it parses
validateDocument(registered, collection, doc) ==
  IF collection \notin DOMAIN registered THEN TRUE ELSE doc.valid

\* ------------------------------------------------------------------ logger
\* receipt.duration is carried beside the receipt
OperationEvent(receipt, duration) ==
  [type |-> "operation", collection |-> receipt.collection,
   operation |-> receipt.operation, reason |-> "receipt", durationMs |-> duration,
   receipt |-> receipt]
SlowQueryEvent(receipt, duration, threshold) ==
  [type |-> "slow-query", collection |-> receipt.collection,
   operation |-> receipt.operation, reason |-> "threshold", durationMs |-> duration,
   threshold |-> threshold]

\* the threshold of the logger when the configuration gives none
slowQueryMs == 1000

LoggerConfig(enabled) == [enabled |-> enabled, slowQueryMs |-> slowQueryMs]

logOperationAbove(config, receipt, duration) ==
  IF ~config.enabled THEN <<>>
  ELSE <<OperationEvent(receipt, duration)>>
       \o (IF duration > config.slowQueryMs
             THEN <<SlowQueryEvent(receipt, duration, config.slowQueryMs)>> ELSE <<>>)

logOperation(config, receipt, duration) ==
  IF ~config.enabled THEN <<>>
  ELSE <<OperationEvent(receipt, duration)>>
       \o (IF duration >= config.slowQueryMs
             THEN <<SlowQueryEvent(receipt, duration, config.slowQueryMs)>> ELSE <<>>)

\* ------------------------------------------------------------------ inputs
\* receipt.duration: just below the threshold of the logger, and on it
Durations == {slowQueryMs - 1, slowQueryMs}

Fa == <<Entry("a", "scalar")>>
Fz == <<Logical("$or", << Fa, <<Entry("z", "null")>> >>)>>
Filters ==
  { <<>>,
    Fa,
    <<Bag("a", <<OpArr("$nin", 0)>>)>>,
    <<Logical("$and", <<>>)>>,
    <<Entry("a", "date"), Entry("b", "array"), Bag("n", <<Op("$gte"), Op("$lt")>>)>>,
    Fz,
    <<Logical("$and", << <<Logical("$nor", << <<Entry("z", "scalar")>> >>)>> >>)>>,
    <<Entry("$where", "scalar")>> }

Updates ==
  { Update(<<"a", "name">>, <<>>, <<>>),
    Update(<<>>, <<"n">>, <<>>),
    Update(<<>>, <<>>, <<"x">>),
    Update(<<>>, <<>>, <<>>) }

Doc(valid) == [valid |-> valid, keys |-> <<"a", "name">>]
Docs == { Doc(TRUE), Doc(FALSE) }
DocLists == { <<>> } \cup { <<d>> : d \in Docs } \cup { <<d, e>> : d \in Docs, e \in Docs }

Confirms == {"undefined", "DELETE_ALL", "UPDATE_ALL"}
Limits == { {}, {100} }
Lookups ==
  { Lookup(f, t, <<>>, FALSE) : f \in {<<>>, Fa, Fz}, t \in {"left", "inner"} }

SchemaFields == {"a", "b", "n", "name", "x"}

\* Every combination of the pipeline switches on PostgreSQL; on the other dialects
\* the switches that reach the SQL text (guardrails, timestamps) in every
\* combination, with the rest of the pipeline enabled.
AllConfigs ==
  [guardrails : BOOLEAN, sanitize : BOOLEAN, schema : BOOLEAN, rules : BOOLEAN,
   timestamps : BOOLEAN, logging : BOOLEAN,
   dialect : {"pg", "mysql2", "mssql", "sqlite"}, backend : {"sql"}]

Configs ==
  { c \in AllConfigs :
      c.dialect = "pg" \/ (c.sanitize /\ c.schema /\ c.rules /\ c.logging) }

\* ------------------------------------------------------ reconnect manager
\* Math.random() is k / RandomSteps for a k in 0 .. RandomSteps - 1
RandomSteps == 8

DEFAULTS ==
  [enabled |-> TRUE, maxAttempts |-> 10, initialDelayMs |-> 1000, maxDelayMs |-> 30000,
   backoffMultiplier |-> 2]

\* the reconnect option of StrictDBConfig: false, true, undefined, or an object
\* with some of the keys
ReconnectOption(kind, values) == [kind |-> kind, values |-> values]

\* constructor(config): the keys of an object override the defaults
\* ({ ...DEFAULTS, ...config })
reconnectConfig(config) ==
  IF config.kind = "false" THEN [DEFAULTS EXCEPT !.enabled = FALSE]
  ELSE IF config.kind \in {"true", "undefined"} THEN DEFAULTS
  ELSE [k \in DOMAIN DEFAULTS |->
          IF k \in DOMAIN config.values THEN config.values[k] ELSE DEFAULTS[k]]

RECURSIVE Pow(_, _)
Pow(b, e) == IF e = 0 THEN 1 ELSE b * Pow(b, e - 1)

\* min(initial * multiplier^(attempts - 1), max)
cappedDelay(config, attempts) ==
  Min(config.initialDelayMs * Pow(config.backoffMultiplier, attempts - 1),
      config.maxDelayMs)

\* a delay with no cap
calculateDelayUncapped(config, attempts, random) ==
  (2 * (config.initialDelayMs * Pow(config.backoffMultiplier, attempts - 1))
     * (3 * RandomSteps + 2 * random) + 4 * RandomSteps) \div (8 * RandomSteps)

\* Math.round(capped * (0.75 + Math.random() * 0.5)), Math.round(x) = floor(x + 1/2)
calculateDelay(config, attempts, random) ==
  (2 * cappedDelay(config, attempts) * (3 * RandomSteps + 2 * random) + 4 * RandomSteps)
    \div (8 * RandomSteps)

\* an event of the reconnect manager on the emitter
ReconnectEvent(type, attempt, maxAttempts, delayMs, code) ==
  [type |-> type, attempt |-> attempt, maxAttempts |-> maxAttempts, delayMs |-> delayMs,
   code |-> code]

\* new ReconnectManager(config, emitter, backend).  pc is the position of the
\* reconnect() call: "idle" (no call), "sleep", "connect" (awaiting connectFn) or
\* "returned"; timer is the pending setTimeout; events are those the call has
\* published; connects and failed count the invocations of connectFn and those
\* that rejected; result is what the call returned.
ReconnectManager(config) ==
  [config |-> reconnectConfig(config), attempts |-> 0, stopped |-> FALSE,
   timer |-> FALSE, pc |-> "idle", events |-> <<>>, connects |-> 0, failed |-> 0,
   result |-> "none", delay |-> 0]

\* the head of the while loop: the next attempt up to its sleep, or the exit with
\* the error event
reconnectLoop(m, random) ==
  IF m.attempts < m.config.maxAttempts /\ ~m.stopped
    THEN With(calculateDelay(m.config, m.attempts + 1, random), LAMBDA delay :
           [m EXCEPT !.attempts = @ + 1, !.delay = delay, !.timer = TRUE, !.pc = "sleep",
                     !.events = Append(@, ReconnectEvent("reconnecting", m.attempts + 1,
                                                         m.config.maxAttempts, delay,
                                                         "none"))])
    ELSE [m EXCEPT !.pc = "returned", !.result = "false",
                   !.events = Append(@, ReconnectEvent("error", 0, 0, 0,
                                                       "CONNECTION_LOST"))]

\* reconnect(connectFn) up to its first await
reconnect(m, random) ==
  IF ~m.config.enabled \/ m.stopped
    THEN [m EXCEPT !.pc = "returned", !.result = "false", !.events = <<>>,
                   !.connects = 0, !.failed = 0]
    ELSE reconnectLoop([m EXCEPT !.attempts = 0, !.connects = 0, !.failed = 0,
                                 !.result = "none",
                                 !.events = <<ReconnectEvent("disconnected", 0, 0, 0,
                                                             "none")>>], random)

\* stop(): the flag is set and the pending timer cleared
stop(m) == [m EXCEPT !.stopped = TRUE, !.timer = FALSE]

\* reset()
reset(m) == [m EXCEPT !.attempts = 0, !.stopped = FALSE]

\* the pool is open after connect(); no operation is in flight, no event published
Life0 == [pool |-> "open", inflight |-> 0, settled |-> 0, events |-> <<>>]

\* ------------------------------------------------------------------- state
VARIABLES
  cfg,            \* the StrictDB configuration, fixed at create()
  schemaRegistry, \* schema.ts: collection -> registered schema
  indexRegistry,  \* schema.ts: the registered index definitions
  schemaCache,    \* sanitize.ts: collection -> registered field names
  rows,           \* the number of rows of the table
  pc,             \* "idle" | "batch" | "done"
  call,           \* the call in progress or just returned
  run,            \* what the call did: stages, statements, events, outcome
  bidx,           \* batch(): index of the next operation record
  bsteps,         \* batch(): the receipts of the steps executed so far
  txOpen,         \* withTransaction: the callback is running on a scope
  txOps,          \* the operations the callback has started on the scope
  txLog,          \* the statements the scope's operations have submitted, in order
  rm,             \* the adapter's ReconnectManager
  life            \* the pool, the operations in flight, the events of the lifecycle

\* what the operations of the facade leave alone
setup == <<cfg, schemaRegistry, indexRegistry, schemaCache, rm, life>>
txVars == <<txOpen, txOps, txLog>>
vars == <<cfg, schemaRegistry, indexRegistry, schemaCache, rows, pc, call, run, bidx, bsteps,
          txOpen, txOps, txLog, rm, life>>

NoCall ==
  [api |-> "none", op |-> "none", enabled |-> FALSE, filter |-> <<>>,
   update |-> Update(<<>>, <<>>, <<>>), upsert |-> FALSE, confirm |-> "undefined",
   limit |-> {}, docs |-> <<>>, lookupType |-> "none", ops |-> <<>>, rows0 |-> 0,
   sort |-> <<>>, unwind |-> FALSE, localNull |-> FALSE, related |-> 0,
   exitCode |-> 0, pattern |-> Pattern(<<>>, 0),
   startIdx |-> 1, timestampConfig |-> resolveTimestampConfig(TimestampOption("undefined", "", "")),
   now |-> "", rules |-> <<>>, unique |-> FALSE]

\* a run: the stages entered, in order; the statements the driver executed; the
\* events published; the outcome; doc is the document an upsert inserted; m is the
\* number of rows that matched the filter of the (last) adapter call
Run0(r0) ==
  [trace |-> <<>>, stmts |-> <<>>, events |-> <<>>, status |-> "running",
   code |-> "none", receipt |-> NoReceipt, value |-> "none", doc |-> <<>>, rows |-> r0,
   m |-> 0, error |-> NoError, cause |-> NoError, duration |-> 0]

Stage(r, name) == [r EXCEPT !.trace = Append(@, name)]
Fail(r, code) == [r EXCEPT !.status = "error", !.code = code]

\* -------------------------------------------------------- pipeline stages
runSanitizeFilter(r, c, cache, filter) ==
  IF r.status # "running" \/ ~c.sanitize THEN r
  ELSE IF sanitizeFilter(cache, Collection, filter, c.backend)
    THEN Stage(r, "sanitize")
    ELSE Fail(Stage(r, "sanitize"), "QUERY_ERROR")

\* applyRulesToFilter / applyRulesToUpdate / applySanitizeRules: the caller's
\* transforms rewrite values, never keys
runRules(r, c) ==
  IF r.status # "running" \/ ~c.rules THEN r ELSE Stage(r, "rules")

runGuardrails(r, c, operation, filter, confirm, limit) ==
  IF r.status # "running" \/ ~c.guardrails THEN r
  ELSE
    LET g == checkGuardrails(TRUE, operation, Collection, filter, confirm, limit)
        s == [Stage(r, "guardrail") EXCEPT !.events = @ \o g.events]
    IN IF g.threw THEN Fail(s, g.code) ELSE s

\* a validation stage that reports nothing
runValidateLenient(r, c, registered, docs) ==
  IF r.status # "running" \/ ~c.schema THEN r ELSE Stage(r, "validate")

runValidate(r, c, registered, docs) ==
  IF r.status # "running" \/ ~c.schema THEN r
  ELSE IF \A i \in 1..Len(docs) : validateDocument(registered, Collection, docs[i])
    THEN Stage(r, "validate")
    ELSE Fail(Stage(r, "validate"), "VALIDATION_ERROR")

runTimestamps(r) == IF r.status # "running" THEN r ELSE Stage(r, "timestamp")

\* the adapter call and, on success, the receipt it builds
runAdapter(r, a, m) ==
  IF r.status # "running" THEN r
  ELSE
    LET s == [Stage(r, "adapter") EXCEPT !.stmts = @ \o a.stmts, !.rows = a.rows,
                                         !.m = m]
    IN IF ~a.ok THEN Fail(s, a.code)
       ELSE IF a.receipt = NoReceipt THEN [s EXCEPT !.value = a.value]
       ELSE [Stage(s, "receipt") EXCEPT !.receipt = a.receipt, !.doc = a.doc]

\* duration: the receipt's duration, measured by createReceipt
runLogger(r, c, duration) ==
  IF r.status # "running" THEN r
  ELSE LET ev == logOperation(LoggerConfig(c.logging), r.receipt, duration) IN
       IF ev = <<>> THEN [r EXCEPT !.duration = duration]
       ELSE [Stage(r, "event") EXCEPT !.events = @ \o ev, !.duration = duration]

Return(r) == IF r.status = "running" THEN [r EXCEPT !.status = "ok"] ELSE r

\* ------------------------------------------------------------- the facade
\* Each operation is the composition of its stages in source order.  `o` holds the
\* handle of the adapter the facade wraps ("pool", or "tx" for the facade of a
\* transactional scope) and the environment's choices: m, fail, duration (and
\* localNull, related for a lookup).
facadeQueryOne(c, cache, r0, filter, o) ==
  Return(runAdapter(runRules(runSanitizeFilter(Run0(r0), c, cache, filter), c),
                    sqlQuery(o.handle, Collection, filter, {1}, c.dialect, r0, o.m,
                             o.fail),
                    o.m))

facadeQueryMany(c, cache, r0, filter, limit, o) ==
  Return(runAdapter(
    runGuardrails(runRules(runSanitizeFilter(Run0(r0), c, cache, filter), c),
                  c, "queryMany", filter, "undefined", limit),
    sqlQuery(o.handle, Collection, filter, limit, c.dialect, r0, o.m, o.fail), o.m))

facadeQueryWithLookup(c, cache, r0, lookup, o) ==
  Return(runAdapter(runRules(runSanitizeFilter(Run0(r0), c, cache, lookup.match), c),
                    performLookup(o.handle, Collection, lookup, c.dialect, r0, o.m,
                                  o.fail, o.localNull, o.related), o.m))

facadeCount(c, cache, r0, filter, o) ==
  Return(runAdapter(runSanitizeFilter(Run0(r0), c, cache, filter),
                    sqlCount(o.handle, Collection, filter, c.dialect, r0, o.m, o.fail),
                    o.m))

facadeInsertOne(c, registered, r0, doc, o) ==
  Return(runLogger(
    runAdapter(runTimestamps(runRules(runValidate(Run0(r0), c, registered, <<doc>>), c)),
               sqlInsertOne(o.handle, Collection, injectInsertTimestamps(doc, c.timestamps),
                            c.dialect, r0, o.fail), 0),
    c, o.duration))

facadeInsertMany(c, registered, r0, docs, o) ==
  Return(runLogger(
    runAdapter(runTimestamps(runRules(runValidate(Run0(r0), c, registered, docs), c)),
               sqlInsertMany(o.handle, Collection,
                             [i \in 1..Len(docs) |->
                                injectInsertTimestamps(docs[i], c.timestamps)],
                             c.dialect, r0, o.fail), 0),
    c, o.duration))

facadeUpdateOne(c, cache, r0, filter, update, upsert, o) ==
  Return(runLogger(
    runAdapter(runTimestamps(runRules(runSanitizeFilter(Run0(r0), c, cache, filter), c)),
               sqlUpdateOne(o.handle, Collection, filter,
                            injectUpdateTimestamps(update, c.timestamps), upsert,
                            c.dialect, r0, o.m, o.fail), o.m),
    c, o.duration))

facadeUpdateMany(c, cache, r0, filter, update, confirm, o) ==
  Return(runLogger(
    runAdapter(
      runTimestamps(
        runGuardrails(runRules(runSanitizeFilter(Run0(r0), c, cache, filter), c),
                      c, "updateMany", filter, confirm, {})),
      sqlUpdateMany(o.handle, Collection, filter,
                    injectUpdateTimestamps(update, c.timestamps),
                    c.dialect, r0, o.m, o.fail), o.m),
    c, o.duration))

facadeDeleteOne(c, cache, r0, filter, o) ==
  Return(runLogger(
    runAdapter(
      runGuardrails(runRules(runSanitizeFilter(Run0(r0), c, cache, filter), c),
                    c, "deleteOne", filter, "undefined", {}),
      sqlDeleteOne(o.handle, Collection, filter, c.dialect, r0, o.m, o.fail), o.m),
    c, o.duration))

facadeDeleteMany(c, cache, r0, filter, confirm, o) ==
  Return(runLogger(
    runAdapter(
      runGuardrails(runRules(runSanitizeFilter(Run0(r0), c, cache, filter), c),
                    c, "deleteMany", filter, confirm, {}),
      sqlDeleteMany(o.handle, Collection, filter, c.dialect, r0, o.m, o.fail), o.m),
    c, o.duration))

\* ---------------------------------------------------------------- batch()
BOp(op, filter, update, upsert, docs) ==
  [op |-> op, filter |-> filter, update |-> update, upsert |-> upsert, docs |-> docs]

NoUpdate == Update(<<>>, <<>>, <<>>)
SetName == Update(<<"name">>, <<>>, <<>>)

BatchOps ==
  { BOp("insertOne", <<>>, NoUpdate, FALSE, <<Doc(TRUE)>>),
    BOp("insertMany", <<>>, NoUpdate, FALSE, <<Doc(TRUE), Doc(FALSE)>>),
    BOp("updateOne", Fa, SetName, TRUE, <<>>),
    BOp("updateMany", <<>>, SetName, FALSE, <<>>),
    BOp("deleteOne", <<>>, NoUpdate, FALSE, <<>>),
    BOp("deleteMany", <<>>, NoUpdate, FALSE, <<>>),
    BOp("deleteMany", Fa, NoUpdate, FALSE, <<>>) }

RECURSIVE SeqsUpTo(_, _)
SeqsUpTo(S, n) ==
  IF n = 0 THEN { <<>> }
  ELSE LET shorter == SeqsUpTo(S, n - 1) IN
       shorter \cup { Append(q, e) : q \in shorter, e \in S }

Batches == SeqsUpTo(BatchOps, MaxBatch)

\* the adapter call of one operation record (the switch of batch())
batchAdapterCall(c, op, r0, m, fail) ==
  CASE op.op = "insertOne" ->
         sqlInsertOne("pool", Collection, injectInsertTimestamps(op.docs[1], c.timestamps),
                      c.dialect, r0, fail)
    [] op.op = "insertMany" ->
         sqlInsertMany("pool", Collection,
                       [i \in 1..Len(op.docs) |->
                          injectInsertTimestamps(op.docs[i], c.timestamps)],
                       c.dialect, r0, fail)
    [] op.op = "updateOne" ->
         sqlUpdateOne("pool", Collection, op.filter,
                      injectUpdateTimestamps(op.update, c.timestamps), op.upsert,
                      c.dialect, r0, m, fail)
    [] op.op = "updateMany" ->
         sqlUpdateMany("pool", Collection, op.filter,
                       injectUpdateTimestamps(op.update, c.timestamps),
                       c.dialect, r0, m, fail)
    [] op.op = "deleteOne" ->
         sqlDeleteOne("pool", Collection, op.filter, c.dialect, r0, m, fail)
    [] op.op = "deleteMany" ->
         sqlDeleteMany("pool", Collection, op.filter, c.dialect, r0, m, fail)

\* the counts batch() accumulates from one step's receipt
batchAccumulate(acc, op, receipt) ==
  CASE op.op \in {"insertOne", "insertMany"} ->
         [acc EXCEPT !.insertedCount = @ + receipt.insertedCount]
    [] op.op \in {"updateOne", "updateMany"} ->
         [acc EXCEPT !.modifiedCount = @ + receipt.modifiedCount]
    [] op.op \in {"deleteOne", "deleteMany"} ->
         [acc EXCEPT !.deletedCount = @ + receipt.deletedCount]

\* ----------------------------------------------------------------- actions
Out(m, fail, duration) ==
  [handle |-> "pool", m |-> m, fail |-> fail, duration |-> duration, localNull |-> FALSE,
   related |-> 0]

Init ==
  /\ cfg \in Configs
  /\ schemaRegistry = [c \in {Collection} |-> Schema("ZodObject", SchemaFields)]
  /\ schemaCache = [c \in {Collection} |-> SchemaFields]
  /\ indexRegistry = <<>>
  /\ rows \in 0..MaxRows
  /\ pc = "idle"
  /\ call = NoCall
  /\ run = Run0(rows)
  /\ bidx = 0
  /\ bsteps = <<>>
  /\ txOpen = FALSE
  /\ txOps = <<>>
  /\ txLog = <<>>
  /\ rm = ReconnectManager(ReconnectOption("undefined", <<>>))
  /\ life = Life0

Finish(c, r) ==
  /\ r.rows <= MaxRows
  /\ pc' = "done"
  /\ call' = [c EXCEPT !.rows0 = rows]
  /\ run' = r
  /\ rows' = r.rows
  /\ UNCHANGED <<setup, bidx, bsteps, txVars>>

Facade(op) == [NoCall EXCEPT !.api = "facade", !.op = op]

QueryOne ==
  /\ pc = "idle"
  /\ \E f \in Filters, m \in 0..rows, fail \in 0..1 :
       Finish([Facade("queryOne") EXCEPT !.filter = f],
              facadeQueryOne(cfg, schemaCache, rows, f, Out(m, fail, 0)))

QueryMany ==
  /\ pc = "idle"
  /\ \E f \in Filters, l \in Limits, m \in 0..rows, fail \in 0..1 :
       Finish([Facade("queryMany") EXCEPT !.filter = f, !.limit = l],
              facadeQueryMany(cfg, schemaCache, rows, f, l, Out(m, fail, 0)))

QueryWithLookup ==
  /\ pc = "idle"
  /\ \E l \in Lookups, m \in 0..rows, fail \in 0..2, ln \in BOOLEAN, k \in 0..1 :
       Finish([Facade("queryWithLookup") EXCEPT !.filter = l.match, !.lookupType = l.type],
              facadeQueryWithLookup(cfg, schemaCache, rows, l,
                [Out(m, fail, 0) EXCEPT !.localNull = ln, !.related = k]))

Count ==
  /\ pc = "idle"
  /\ \E f \in Filters, m \in 0..rows, fail \in 0..1 :
       Finish([Facade("count") EXCEPT !.filter = f],
              facadeCount(cfg, schemaCache, rows, f, Out(m, fail, 0)))

InsertOne ==
  /\ pc = "idle"
  /\ \E d \in Docs, fail \in 0..1, duration \in Durations :
       Finish([Facade("insertOne") EXCEPT !.docs = <<d>>],
              facadeInsertOne(cfg, schemaRegistry, rows, d, Out(0, fail, duration)))

InsertMany ==
  /\ pc = "idle"
  /\ \E ds \in DocLists, fail \in 0..1, duration \in Durations :
       Finish([Facade("insertMany") EXCEPT !.docs = ds],
              facadeInsertMany(cfg, schemaRegistry, rows, ds, Out(0, fail, duration)))

UpdateOne ==
  /\ pc = "idle"
  /\ \E f \in Filters, u \in Updates, up \in BOOLEAN, m \in 0..rows, fail \in 0..2,
        duration \in Durations :
       Finish([Facade("updateOne") EXCEPT !.filter = f, !.update = u, !.upsert = up],
              facadeUpdateOne(cfg, schemaCache, rows, f, u, up, Out(m, fail, duration)))

UpdateMany ==
  /\ pc = "idle"
  /\ \E f \in Filters, u \in Updates, cf \in Confirms, m \in 0..rows, fail \in 0..1,
        duration \in Durations :
       Finish([Facade("updateMany") EXCEPT !.filter = f, !.update = u, !.confirm = cf],
              facadeUpdateMany(cfg, schemaCache, rows, f, u, cf, Out(m, fail, duration)))

DeleteOne ==
  /\ pc = "idle"
  /\ \E f \in Filters, m \in 0..rows, fail \in 0..1, duration \in Durations :
       Finish([Facade("deleteOne") EXCEPT !.filter = f],
              facadeDeleteOne(cfg, schemaCache, rows, f, Out(m, fail, duration)))

DeleteMany ==
  /\ pc = "idle"
  /\ \E f \in Filters, cf \in Confirms, m \in 0..rows, fail \in 0..1, duration \in Durations :
       Finish([Facade("deleteMany") EXCEPT !.filter = f, !.confirm = cf],
              facadeDeleteMany(cfg, schemaCache, rows, f, cf, Out(m, fail, duration)))

\* a direct call of checkGuardrails(ctx, operation, collection, filter, options):
\* the four operations of the switch and two that have no case
GuardedOperations == {"deleteMany", "updateMany", "deleteOne", "queryMany"}
Operations == GuardedOperations \cup {"updateOne", "insertOne"}
GuardFilters == { <<>>, Fa, <<Bag("a", <<OpArr("$nin", 0)>>)>> }

CheckGuardrails ==
  /\ pc = "idle"
  /\ \E en \in BOOLEAN, op \in Operations, f \in GuardFilters, cf \in Confirms,
        l \in Limits :
       LET g == checkGuardrails(en, op, Collection, f, cf, l)
           r == [Run0(rows) EXCEPT !.trace = g.steps, !.events = g.events,
                                   !.status = IF g.threw THEN "error" ELSE "ok",
                                   !.code = g.code]
       IN Finish([NoCall EXCEPT !.api = "checkGuardrails", !.op = op, !.enabled = en,
                                !.filter = f, !.confirm = cf, !.limit = l], r)

BatchStart ==
  /\ pc = "idle"
  /\ \E ops \in Batches :
       /\ pc' = "batch"
       /\ call' = [NoCall EXCEPT !.api = "batch", !.op = "batch", !.ops = ops,
                                 !.rows0 = rows]
       /\ run' = Run0(rows)
       /\ bidx' = 1
       /\ bsteps' = <<>>
  /\ UNCHANGED <<setup, rows, txVars>>

\* one iteration of the loop: the adapter call of operation record bidx
BatchStep ==
  /\ pc = "batch"
  /\ bidx <= Len(call.ops)
  /\ \E m \in 0..rows, fail \in 0..2 :
       \E a \in { batchAdapterCall(cfg, call.ops[bidx], rows, m, fail) } :
         \E s \in { [Stage(run, "adapter") EXCEPT !.stmts = @ \o a.stmts,
                                                    !.rows = a.rows, !.m = m] } :
           /\ a.rows <= MaxRows
           /\ rows' = a.rows
           /\ IF a.ok
                THEN /\ run' = [Stage(s, "receipt") EXCEPT
                                  !.receipt = batchAccumulate(
                                    IF bidx = 1
                                    THEN createReceipt("batch", "batch", cfg.backend,
                                                       0, 0, 0, 0)
                                    ELSE run.receipt, call.ops[bidx], a.receipt)]
                     /\ bsteps' = Append(bsteps, a.receipt)
                     /\ bidx' = bidx + 1
                     /\ pc' = "batch"
                ELSE /\ run' = [Fail(s, a.code) EXCEPT !.receipt = NoReceipt]
                     /\ UNCHANGED <<bsteps, bidx>>
                     /\ pc' = "done"
  /\ UNCHANGED <<setup, call, txVars>>

\* after the loop: the batch receipt and the logger
BatchFinish ==
  /\ pc = "batch"
  /\ bidx > Len(call.ops)
  /\ \E duration \in Durations :
       LET r == [run EXCEPT !.receipt =
                   IF Len(call.ops) = 0
                   THEN createReceipt("batch", "batch", cfg.backend, 0, 0, 0, 0) ELSE @]
       IN run' = Return(runLogger(r, cfg, duration))
  /\ pc' = "done"
  /\ UNCHANGED <<setup, rows, call, bidx, bsteps, txVars>>

\* the caller has the result; the next call starts from a clean slate
Idle ==
  /\ pc = "done"
  /\ pc' = "idle"
  /\ call' = NoCall
  /\ run' = Run0(rows)
  /\ bidx' = 0
  /\ bsteps' = <<>>
  /\ UNCHANGED <<setup, rows, txVars>>

Next ==
  \/ QueryOne \/ QueryMany \/ QueryWithLookup \/ Count
  \/ InsertOne \/ InsertMany \/ UpdateOne \/ UpdateMany \/ DeleteOne \/ DeleteMany
  \/ CheckGuardrails
  \/ BatchStart \/ BatchStep \/ BatchFinish
  \/ Idle

Spec == Init /\ [][Next]_vars

\* ------------------------------------------------- the transactional scope
\* withTransaction hands the callback a facade over a SqlTransactionAdapter, whose
\* every statement is `await this.client.query(...)`.  An operation the callback
\* starts runs up to its first await, which submits its first statement; it
\* resumes, and submits its next statement if it has one, when the result of the
\* previous one is back.  The client executes statements in submission order.
MaxTxOps == 2

ScopeCalls ==
  { BOp("updateOne", Fa, SetName, TRUE, <<>>),
    BOp("queryWithLookup", Fa, NoUpdate, FALSE, <<>>),
    BOp("deleteOne", Fa, NoUpdate, FALSE, <<>>),
    BOp("deleteOne", <<>>, NoUpdate, FALSE, <<>>),
    BOp("insertOne", <<>>, NoUpdate, FALSE, <<Doc(TRUE)>>) }

TxOut(m) ==
  [handle |-> "tx", m |-> m, fail |-> 0, duration |-> 0, localNull |-> FALSE,
   related |-> 1]

\* tx.<operation>(...): the call of the scope facade, run to completion as if alone
scopeCall(c, cache, registered, r0, op, o) ==
  CASE op.op = "updateOne" ->
         facadeUpdateOne(c, cache, r0, op.filter, op.update, op.upsert, o)
    [] op.op = "queryWithLookup" ->
         facadeQueryWithLookup(c, cache, r0, Lookup(op.filter, "left", <<>>, FALSE), o)
    [] op.op = "deleteOne" -> facadeDeleteOne(c, cache, r0, op.filter, o)
    [] op.op = "insertOne" -> facadeInsertOne(c, registered, r0, op.docs[1], o)

\* the statement is submitted to its handle and executed
Submit(id, stmt, m) ==
  /\ DriverExec(stmt.sql, rows, m).rows <= MaxRows
  /\ rows' = DriverExec(stmt.sql, rows, m).rows
  /\ txLog' = Append(txLog, [op |-> id, handle |-> stmt.handle, sql |-> stmt.sql])

TxBegin ==
  /\ pc = "idle"
  /\ ~txOpen
  /\ txOpen' = TRUE
  /\ txOps' = <<>>
  /\ txLog' = <<>>
  /\ UNCHANGED <<setup, rows, pc, call, run, bidx, bsteps>>

\* the callback starts an operation on the scope: the pipeline runs and the
\* first statement (if the call gets that far) is submitted
TxCall ==
  /\ txOpen
  /\ Len(txOps) < MaxTxOps
  /\ \E op \in ScopeCalls, m \in 0..rows :
       \E r \in { scopeCall(cfg, schemaCache, schemaRegistry, rows, op, TxOut(m)) } :
         /\ txOps' = Append(txOps, [op |-> op.op, plan |-> r.stmts, m |-> m,
                                    next |-> IF r.stmts = <<>> THEN 1 ELSE 2])
         /\ IF r.stmts = <<>>
              THEN UNCHANGED <<rows, txLog>>
              ELSE Submit(Len(txOps) + 1, r.stmts[1], m)
  /\ UNCHANGED <<setup, pc, call, run, bidx, bsteps, txOpen>>

\* the result of an operation's statement is back: it submits its next one
TxResume ==
  /\ txOpen
  /\ \E i \in 1..Len(txOps) :
       /\ txOps[i].next <= Len(txOps[i].plan)
       /\ Submit(i, txOps[i].plan[txOps[i].next], txOps[i].m)
       /\ txOps' = [txOps EXCEPT ![i].next = @ + 1]
  /\ UNCHANGED <<setup, pc, call, run, bidx, bsteps, txOpen>>

\* every operation has returned: the callback returns and the scope commits
TxCommit ==
  /\ txOpen
  /\ \A i \in 1..Len(txOps) : txOps[i].next > Len(txOps[i].plan)
  /\ txOpen' = FALSE
  /\ txOps' = <<>>
  /\ txLog' = <<>>
  /\ UNCHANGED <<setup, rows, pc, call, run, bidx, bsteps>>

NextTx == TxBegin \/ TxCall \/ TxResume \/ TxCommit

SpecTx == Init /\ [][NextTx]_vars

\* ------------------------------------------------- lookups at the adapters
\* queryWithLookup called on an adapter: the relational adapter on the pool or on
\* the client of a transaction, or the search-engine adapter.
Sorts == { <<>>, << [field |-> "n", dir |-> -1] >> }

ElasticFilters == { f \in Filters : \A i \in 1..Len(f) : f[i].kind # "bag" }

LookupConfigs ==
  { [guardrails |-> FALSE, sanitize |-> FALSE, schema |-> FALSE, rules |-> FALSE,
     timestamps |-> FALSE, logging |-> FALSE, dialect |-> d, backend |-> "sql"]
    : d \in {"pg", "mysql2", "mssql", "sqlite"} }
  \cup { [guardrails |-> FALSE, sanitize |-> FALSE, schema |-> FALSE, rules |-> FALSE,
          timestamps |-> FALSE, logging |-> FALSE, dialect |-> "none",
          backend |-> "elastic"] }

InitLookup ==
  /\ cfg \in LookupConfigs
  /\ schemaRegistry = [c \in {} |-> {}]
  /\ schemaCache = [c \in {} |-> {}]
  /\ indexRegistry = <<>>
  /\ rows \in 0..MaxRows
  /\ pc = "idle"
  /\ call = NoCall
  /\ run = Run0(rows)
  /\ bidx = 0
  /\ bsteps = <<>>
  /\ txOpen = FALSE
  /\ txOps = <<>>
  /\ txLog = <<>>
  /\ rm = ReconnectManager(ReconnectOption("undefined", <<>>))
  /\ life = Life0

LookupCall(l, ln, k) ==
  [NoCall EXCEPT !.api = "adapter", !.op = "queryWithLookup", !.filter = l.match,
                 !.lookupType = l.type, !.sort = l.sort, !.unwind = l.unwind,
                 !.localNull = ln, !.related = k]

LookupDone(c, a, m) ==
  /\ pc' = "done"
  /\ call' = c
  /\ run' = Return(runAdapter(Run0(rows), a, m))
  /\ UNCHANGED <<setup, rows, bidx, bsteps, txVars>>

\* SqlAdapter.queryWithLookup (pool) and SqlTransactionAdapter.queryWithLookup (tx)
SqlLookup ==
  /\ pc = "idle"
  /\ cfg.backend = "sql"
  /\ \E f \in Filters, t \in {"left", "inner"}, so \in Sorts, u \in BOOLEAN,
        handle \in {"pool", "tx"}, m \in 0..rows, fail \in 0..2, ln \in BOOLEAN,
        k \in 0..MaxRows :
       LookupDone(LookupCall(Lookup(f, t, so, u), ln, k),
                  performLookup(handle, Collection, Lookup(f, t, so, u), cfg.dialect,
                                rows, m, fail, ln, k), m)

\* ElasticAdapter.queryWithLookup
ElasticLookup ==
  /\ pc = "idle"
  /\ cfg.backend = "elastic"
  /\ \E f \in ElasticFilters, t \in {"left", "inner"}, so \in Sorts, u \in BOOLEAN,
        m \in 0..rows, fail \in 0..2, ln \in BOOLEAN, k \in 0..MaxRows :
       LookupDone(LookupCall(Lookup(f, t, so, u), ln, k),
                  elasticQueryWithLookup(Collection, Lookup(f, t, so, u), rows, m, fail,
                                         ln, k), m)

NextLookup == SqlLookup \/ ElasticLookup \/ Idle

SpecLookup == InitLookup /\ [][NextLookup]_vars

\* ------------------------------------------------- errors at the adapters
\* A driver call made by an adapter operation fails; what the caller receives.
CrudOperations ==
  {"queryOne", "queryMany", "queryWithLookup", "count", "insertOne", "insertMany",
   "updateOne", "updateMany", "deleteOne", "deleteMany"}

\* the operations of each adapter that call the driver
AdapterOperations(backend) ==
  CrudOperations \cup
  CASE backend = "sql" ->
         {"connect", "close", "withTransaction", "ensureCollections", "describeCollection"}
    [] backend = "mongo" -> {"connect", "close", "withTransaction", "ensureIndexes"}
    [] backend = "elastic" ->
         {"connect", "close", "ensureCollections", "describeCollection"}

\* the operations whose driver call is inside try { } catch { throw mapNativeError }
Guarded(backend, op) ==
  op \notin {"close", "withTransaction", "ensureCollections", "ensureIndexes"}

\* error objects of the drivers, one or more for each branch of the mappers
DriverErrors(backend) ==
  CASE backend = "sql" ->
         { NativeError("23505", {}, "none"),
           NativeError("ECONNREFUSED", {"ECONNREFUSED"}, "none"),
           NativeError("57014", {}, "none"),
           NativeError("28P01", {}, "none"),
           NativeError("42P01", {"does not exist"}, "none"),
           NativeError("", {"timeout exceeded", "pool"}, "none"),
           NativeError("08006", {"Connection terminated unexpectedly"}, "none"),
           NativeError("42601", {"syntax error"}, "none") }
    [] backend = "mongo" ->
         { NativeError("11000", {}, "none"),
           NativeError("", {"topology was destroyed"}, "none"),
           NativeError("", {"Server selection timed out", "timed out"}, "none"),
           NativeError("18", {"Authentication failed"}, "none"),
           NativeError("", {"ECONNREFUSED"}, "none"),
           NativeError("", {"timed out"}, "none"),
           NativeError("2", {"BadValue"}, "none") }
    [] backend = "elastic" ->
         { NativeError("409", {}, "version_conflict_engine_exception"),
           NativeError("401", {}, "security_exception"),
           NativeError("404", {}, "index_not_found_exception"),
           NativeError("", {"ConnectionError"}, "none"),
           NativeError("", {"TimeoutError"}, "none"),
           NativeError("400", {"parsing_exception"}, "parsing_exception") }

\* StrictDBErrors thrown inside the try block of an operation: by the translators,
\* by validateIndexName, and by ElasticAdapter.getClient before connect()
InnerErrors(backend) ==
  { StrictDBError("UNKNOWN_OPERATOR", backend, {}) }
  \cup (IF backend = "elastic"
          THEN { StrictDBError("CONNECTION_FAILED", "elastic", {}),
                 StrictDBError("QUERY_ERROR", "elastic", {}) }
          ELSE {})

\* the other places that construct a StrictDBError
ErrorSites ==
  { [site |-> "checkGuardrails", error |-> StrictDBError("GUARDRAIL_BLOCKED", "mongo", {})],
    [site |-> "sanitizeFilter", error |-> StrictDBError("QUERY_ERROR", "sql", {})],
    [site |-> "insertOne", error |-> StrictDBError("VALIDATION_ERROR", "sql", {})],
    [site |-> "withTransaction",
     error |-> StrictDBError("UNSUPPORTED_OPERATION", "elastic", {})] }

UriSchemes == {"mongodb://", "postgresql://", "mysql://", "mssql://", "sqlite:",
               "https://", "redis://"}

\* detectBackend(uri): the backend, or the error thrown for an unknown scheme
detectBackend(scheme) ==
  CASE scheme = "mongodb://" -> [backend |-> "mongo", error |-> NoError]
    [] scheme \in {"postgresql://", "mysql://", "mssql://", "sqlite:"} ->
         [backend |-> "sql", error |-> NoError]
    [] scheme = "https://" -> [backend |-> "elastic", error |-> NoError]
    [] OTHER -> [backend |-> "none",
                 error |-> StrictDBError("CONNECTION_FAILED", "mongo", {})]

ErrConfigs ==
  { [guardrails |-> FALSE, sanitize |-> FALSE, schema |-> FALSE, rules |-> FALSE,
     timestamps |-> FALSE, logging |-> FALSE, dialect |-> "none", backend |-> b]
    : b \in {"mongo", "sql", "elastic"} }

InitErr ==
  /\ cfg \in ErrConfigs
  /\ schemaRegistry = [c \in {} |-> {}]
  /\ schemaCache = [c \in {} |-> {}]
  /\ indexRegistry = <<>>
  /\ rows = 0
  /\ pc = "idle"
  /\ call = NoCall
  /\ run = Run0(0)
  /\ bidx = 0
  /\ bsteps = <<>>
  /\ txOpen = FALSE
  /\ txOps = <<>>
  /\ txLog = <<>>
  /\ rm = ReconnectManager(ReconnectOption("undefined", <<>>))
  /\ life = Life0

\* the caller receives `thrown`; `cause` is the error the failing call raised
Raised(api, op, cause, thrown) ==
  /\ pc' = "done"
  /\ call' = [NoCall EXCEPT !.api = api, !.op = op]
  /\ run' = [Fail(Run0(rows), thrown.code) EXCEPT !.error = thrown, !.cause = cause]
  /\ rm' = IF api = "adapter" /\ op = "close" THEN stop(rm) ELSE rm
  /\ UNCHANGED <<cfg, schemaRegistry, indexRegistry, schemaCache, life, rows, bidx, bsteps, txVars>>

\* an operation whose driver call rejects with a driver error
DriverFailure ==
  /\ pc = "idle"
  /\ \E op \in AdapterOperations(cfg.backend), e \in DriverErrors(cfg.backend) :
       Raised("adapter", op, e,
              IF Guarded(cfg.backend, op) THEN mapNativeError(cfg.backend, e) ELSE e)

\* a StrictDBError thrown inside the try block of a read or a write
InnerFailure ==
  /\ pc = "idle"
  /\ \E op \in CrudOperations, e \in InnerErrors(cfg.backend) :
       Raised("adapter", op, e, mapNativeError(cfg.backend, e))

\* StrictDB.create: the backend is detected from the URI
DetectBackend ==
  /\ pc = "idle"
  /\ \E scheme \in UriSchemes :
       \E d \in { detectBackend(scheme) } :
         IF d.error # NoError
           THEN Raised("create", "detectBackend", d.error, d.error)
           ELSE /\ pc' = "done"
                /\ call' = [NoCall EXCEPT !.api = "create", !.op = "detectBackend"]
                /\ run' = [Return(Run0(rows)) EXCEPT !.value = d.backend]
                /\ UNCHANGED <<setup, rows, bidx, bsteps, txVars>>

\* an error constructed by the facade, the guardrails or the sanitizer
RaiseSite ==
  /\ pc = "idle"
  /\ \E x \in ErrorSites : Raised("facade", x.site, x.error, x.error)

NextErr == DriverFailure \/ InnerFailure \/ DetectBackend \/ RaiseSite \/ Idle

SpecErr == InitErr /\ [][NextErr]_vars

\* ------------------------------------------------- the reconnect manager
\* One manager, its reconnect() called by its owner, connectFn resolving or
\* rejecting, and stop() / reset() called from outside.
MaxAttemptsBound == 3

ReconnectOptions ==
  { ReconnectOption("false", <<>>) }
  \cup { ReconnectOption("object",
           [maxAttempts |-> a, initialDelayMs |-> i, maxDelayMs |-> x,
            backoffMultiplier |-> b])
         : a \in 1..MaxAttemptsBound, i \in {1, 3}, x \in {3, 8}, b \in {1, 2} }

facadeVars ==
  <<cfg, schemaRegistry, indexRegistry, schemaCache, life, rows, pc, call, run, bidx, bsteps, txOpen,
    txOps, txLog>>

InitManager(configs, options) ==
  /\ cfg \in configs
  /\ schemaRegistry = [c \in {} |-> {}]
  /\ schemaCache = [c \in {} |-> {}]
  /\ indexRegistry = <<>>
  /\ rows = 0
  /\ pc = "idle"
  /\ call = NoCall
  /\ run = Run0(0)
  /\ bidx = 0
  /\ bsteps = <<>>
  /\ txOpen = FALSE
  /\ txOps = <<>>
  /\ txLog = <<>>
  /\ rm \in { ReconnectManager(o) : o \in options }
  /\ life = Life0

SqlConfigs == { c \in ErrConfigs : c.backend = "sql" }

InitReconnect == InitManager(SqlConfigs, ReconnectOptions)

\* reconnect(connectFn) is called
Reconnect ==
  /\ rm.pc = "idle"
  /\ \E random \in 0..(RandomSteps - 1) : rm' = reconnect(rm, random)
  /\ UNCHANGED facadeVars

\* the timer of sleep() fires: the check of _stopped, then connectFn is invoked
TimerFires ==
  /\ rm.pc = "sleep"
  /\ rm.timer
  /\ rm' = IF rm.stopped
             THEN [rm EXCEPT !.timer = FALSE, !.pc = "returned", !.result = "false"]
             ELSE [rm EXCEPT !.timer = FALSE, !.pc = "connect", !.connects = @ + 1]
  /\ UNCHANGED facadeVars

\* connectFn resolves
ConnectSucceeds ==
  /\ rm.pc = "connect"
  /\ rm' = [rm EXCEPT !.attempts = 0, !.pc = "returned", !.result = "true",
                      !.events = Append(@, ReconnectEvent("reconnected", rm.attempts, 0,
                                                          0, "none"))]
  /\ UNCHANGED facadeVars

\* connectFn rejects: the catch, then the head of the loop
ConnectFails ==
  /\ rm.pc = "connect"
  /\ \E random \in 0..(RandomSteps - 1) :
       rm' = reconnectLoop([rm EXCEPT !.failed = @ + 1], random)
  /\ UNCHANGED facadeVars

Stop ==
  /\ ~rm.stopped
  /\ rm' = stop(rm)
  /\ UNCHANGED facadeVars

\* reset(), called while no reconnect() is running
Reset ==
  /\ rm.pc = "idle"
  /\ rm.stopped \/ rm.attempts # 0
  /\ rm' = reset(rm)
  /\ UNCHANGED facadeVars

\* the caller has the result of reconnect()
ReconnectReturn ==
  /\ rm.pc = "returned"
  /\ rm' = [rm EXCEPT !.pc = "idle"]
  /\ UNCHANGED facadeVars

NextReconnect ==
  \/ Reconnect \/ TimerFires \/ ConnectSucceeds \/ ConnectFails
  \/ Stop \/ Reset \/ ReconnectReturn

SpecReconnect == InitReconnect /\ [][NextReconnect]_vars

\* The same steps under the scheduling the runtime gives: a pending timer fires,
\* an invoked connectFn settles, and the caller takes the result.
SpecReconnectFair ==
  /\ InitReconnect
  /\ [][NextReconnect]_vars
  /\ WF_vars(TimerFires)
  /\ WF_vars(ConnectSucceeds \/ ConnectFails)
  /\ WF_vars(ReconnectReturn)

\* ---------------------------------------------------------------- delays
\* calculateDelay on its own: every attempt number of every configuration
DelayOptions ==
  ReconnectOptions
  \cup { ReconnectOption("undefined", <<>>), ReconnectOption("true", <<>>),
         ReconnectOption("object", [maxAttempts |-> 2]),
         ReconnectOption("object", [maxDelayMs |-> 5000]),
         ReconnectOption("object", [initialDelayMs |-> 4, maxDelayMs |-> 4,
                                    backoffMultiplier |-> 1]) }

InitDelay == InitManager(SqlConfigs, DelayOptions)

\* the delay of attempt n, as the loop computes it after this.attempts++
CalculateDelay ==
  /\ \E n \in 1..rm.config.maxAttempts, random \in 0..(RandomSteps - 1) :
       rm' = [rm EXCEPT !.attempts = n, !.delay = calculateDelay(rm.config, n, random)]
  /\ UNCHANGED facadeVars

NextDelay == CalculateDelay

SpecDelay == InitDelay /\ [][NextDelay]_vars

\* ------------------------------------------------- a connection that drops
\* An adapter with an established connection: its operations fail with driver
\* errors, and close() is called at some time or never.  Every step the adapter
\* can take is taken eventually.
ConnOptions ==
  { ReconnectOption("undefined", <<>>), ReconnectOption("true", <<>>),
    ReconnectOption("false", <<>>), ReconnectOption("object", [maxAttempts |-> 2]) }

InitConn == InitManager(ErrConfigs, ConnOptions)

\* adapter.close(): the manager is stopped, the pool is closed
AdapterClose ==
  /\ pc = "idle"
  /\ life.pool = "open"
  /\ pc' = "done"
  /\ call' = [NoCall EXCEPT !.api = "adapter", !.op = "close"]
  /\ run' = Return(Run0(rows))
  /\ rm' = stop(rm)
  /\ life' = [life EXCEPT !.pool = "closed"]
  /\ UNCHANGED <<cfg, schemaRegistry, indexRegistry, schemaCache, rows, bidx, bsteps, txVars>>

NextConn == DriverFailure \/ AdapterClose \/ Idle

SpecConn == InitConn /\ [][NextConn]_vars /\ WF_vars(NextConn)

\* ---------------------------------------------------------------- shutdown
\* The facade with operations in flight; close() or gracefulShutdown(exitCode) is
\* called once.  StrictDB.close awaits adapter.close(), which stops the manager and
\* awaits the driver's closePool(); the code of closePool is outside this
\* repository, so it may resolve before or after the operations in flight settle.
MaxOutstanding == 2

ExitCodes == {0, 1}

ShutdownEvent(exitCode) == [type |-> "shutdown", exitCode |-> exitCode]

InitShutdown == InitManager(ErrConfigs, ConnOptions)

\* an operation is started on the adapter and awaits the driver
OperationStarts ==
  /\ pc = "idle"
  /\ life.pool = "open"
  /\ life.inflight + life.settled < MaxOutstanding
  /\ life' = [life EXCEPT !.inflight = @ + 1]
  /\ UNCHANGED <<cfg, schemaRegistry, indexRegistry, schemaCache, rm, rows, pc, call, run, bidx, bsteps,
                 txVars>>

\* an operation in flight completes or fails
OperationSettles ==
  /\ life.inflight > 0
  /\ life' = [life EXCEPT !.inflight = @ - 1, !.settled = @ + 1]
  /\ UNCHANGED <<cfg, schemaRegistry, indexRegistry, schemaCache, rm, rows, pc, call, run, bidx, bsteps,
                 txVars>>

\* StrictDB.close() up to the await of closePool()
Close ==
  /\ pc = "idle"
  /\ life.pool = "open"
  /\ pc' = "closing"
  /\ call' = [NoCall EXCEPT !.api = "facade", !.op = "close"]
  /\ run' = Run0(rows)
  /\ rm' = stop(rm)
  /\ UNCHANGED <<cfg, schemaRegistry, indexRegistry, schemaCache, life, rows, bidx, bsteps, txVars>>

\* StrictDB.gracefulShutdown(exitCode) up to the await of closePool(): the event is
\* emitted, then close() is called
GracefulShutdown ==
  /\ pc = "idle"
  /\ life.pool = "open"
  /\ \E exitCode \in ExitCodes :
       /\ call' = [NoCall EXCEPT !.api = "facade", !.op = "gracefulShutdown",
                              !.exitCode = exitCode]
       /\ life' = [life EXCEPT !.events = Append(@, ShutdownEvent(exitCode))]
  /\ pc' = "closing"
  /\ run' = Run0(rows)
  /\ rm' = stop(rm)
  /\ UNCHANGED <<cfg, schemaRegistry, indexRegistry, schemaCache, rows, bidx, bsteps, txVars>>

\* closePool() resolves, or rejects with a driver error that close() does not
\* catch; the pool is then neither open nor known to be closed
PoolClosed ==
  /\ pc = "closing"
  /\ \E e \in {NoError} \cup DriverErrors(cfg.backend) :
       IF e = NoError
         THEN /\ life' = [life EXCEPT !.pool = "closed"]
              /\ run' = Return(run)
         ELSE /\ life' = [life EXCEPT !.pool = "failed"]
              /\ run' = [Fail(run, e.code) EXCEPT !.error = e, !.cause = e]
  /\ pc' = "done"
  /\ UNCHANGED <<cfg, schemaRegistry, indexRegistry, schemaCache, rm, rows, call, bidx, bsteps, txVars>>

NextShutdown ==
  \/ OperationStarts \/ OperationSettles \/ Close \/ GracefulShutdown \/ PoolClosed
  \/ Idle

SpecShutdown == InitShutdown /\ [][NextShutdown]_vars

\* ------------------------------------------------------- the field whitelist
\* The facade on PostgreSQL, with and without a schema registered for the
\* collection (registerCollection fills the registry and the field whitelist).
SanitizeConfigs ==
  { c \in Configs : c.dialect = "pg" /\ ~c.timestamps /\ ~c.logging /\ ~c.rules }

InitSanitize ==
  /\ cfg \in SanitizeConfigs
  /\ \E registered \in BOOLEAN :
       /\ schemaRegistry = [c \in (IF registered THEN {Collection} ELSE {}) |->
                              Schema("ZodObject", SchemaFields)]
       /\ schemaCache = [c \in (IF registered THEN {Collection} ELSE {}) |-> SchemaFields]
  /\ indexRegistry = <<>>
  /\ rows \in 0..MaxRows
  /\ pc = "idle"
  /\ call = NoCall
  /\ run = Run0(rows)
  /\ bidx = 0
  /\ bsteps = <<>>
  /\ txOpen = FALSE
  /\ txOps = <<>>
  /\ txLog = <<>>
  /\ rm = ReconnectManager(ReconnectOption("undefined", <<>>))
  /\ life = Life0

SpecSanitize == InitSanitize /\ [][Next]_vars

\* ------------------------------------------------------------ $regex filters
\* queryOne with a filter { a: { $regex: pattern } } through the facade of each
\* backend.
Patterns ==
  { Pattern(<<"^", "T", "i", "m">>, 0),
    Pattern(<<"[", "a", "-", "z", "]", "+">>, 0),
    Pattern(<<"(", "a", "+", ")", "+">>, 0),
    Pattern(<<"(", "?", ":", "a", "*", "b", ")", "*">>, 0),
    Pattern(<<"a">>, MaxPatternLength - 1),
    Pattern(<<"a">>, MaxPatternLength) }

RegexFilter == <<Bag("a", <<Op("$regex")>>)>>

RegexConfigs ==
  { [guardrails |-> FALSE, sanitize |-> s, schema |-> FALSE, rules |-> FALSE,
     timestamps |-> FALSE, logging |-> FALSE,
     dialect |-> IF b = "sql" THEN "pg" ELSE "none", backend |-> b]
    : s \in BOOLEAN, b \in {"mongo", "sql", "elastic"} }

InitRegex ==
  /\ cfg \in RegexConfigs
  /\ schemaRegistry = [c \in {Collection} |-> Schema("ZodObject", SchemaFields)]
  /\ schemaCache = [c \in {Collection} |-> SchemaFields]
  /\ indexRegistry = <<>>
  /\ rows \in 0..MaxRows
  /\ pc = "idle"
  /\ call = NoCall
  /\ run = Run0(rows)
  /\ bidx = 0
  /\ bsteps = <<>>
  /\ txOpen = FALSE
  /\ txOps = <<>>
  /\ txLog = <<>>
  /\ rm = ReconnectManager(ReconnectOption("undefined", <<>>))
  /\ life = Life0

\* adapter.queryOne(collection, filter) of the three adapters; MongoAdapter hands
\* the filter to mongo.queryOne as it is
adapterQueryOne(backend, dialect, filter, r0, m, fail) ==
  CASE backend = "sql" -> sqlQuery("pool", Collection, filter, {1}, dialect, r0, m, fail)
    [] backend = "elastic" ->
         [elasticSearch(Collection, filter, 1, <<>>, m, fail = 1) EXCEPT !.rows = r0]
    [] backend = "mongo" ->
         IF fail = 1 THEN Threw(<<>>, r0, "NATIVE")
         ELSE Value(<<Stmt(<<"queryOne", Collection>>, "mongo", Min(1, m))>>, r0, "hits")

\* StrictDB.queryOne(collection, { a: { $regex: pattern } })
RegexQueryOne ==
  /\ pc = "idle"
  /\ \E p \in Patterns, m \in 0..rows, fail \in 0..1 :
       Finish([Facade("queryOne") EXCEPT !.filter = RegexFilter, !.pattern = p],
              Return(runAdapter(
                runRules(runSanitizeFilter(Run0(rows), cfg, schemaCache, RegexFilter), cfg),
                adapterQueryOne(cfg.backend, cfg.dialect, RegexFilter, rows, m, fail), m)))

NextRegex == RegexQueryOne \/ Idle

SpecRegex == InitRegex /\ [][NextRegex]_vars

\* ------------------------------------------------------------ translateToSQL
\* translateToSQL(filter, dialect, startIdx) on its own, for filters of every
\* shape the translator distinguishes.
MaxStartIdx == 3

TranslateFilters ==
  Filters \cup
  { <<Bag("a", <<OpArr("$in", 3)>>), Entry("b", "scalar")>>,
    <<Bag("a", <<OpArr("$in", 0), OpArr("$nin", 2)>>), Bag("b", <<Op("$eq")>>)>>,
    <<Bag("a", <<Op("$regex"), Op("$options")>>), Bag("b", <<Op("$size")>>)>>,
    <<Bag("a", <<OpNot(<<Op("$gt"), OpNull("$eq"), Op("$lte")>>), Op("$ne")>>)>>,
    <<Bag("a", <<OpNot(<<Op("$options")>>)>>), Entry("b", "scalar")>>,
    <<Bag("a", <<OpNull("$ne"), Op("$exists")>>), Entry("b", "null")>>,
    <<Logical("$or", << Fa, <<>>, <<Bag("b", <<OpArr("$in", 2)>>)>> >>),
      Entry("x", "scalar")>>,
    <<Entry("x", "scalar"),
      Logical("$nor", << <<Bag("a", <<OpArr("$nin", 0)>>)>>,
                         <<Logical("$and", << Fa, <<Entry("b", "scalar")>> >>)>> >>),
      Bag("n", <<Op("$lt")>>)>>,
    <<Bag("a", <<Op("$bogus")>>)>> }

InitTranslate ==
  /\ cfg \in { c \in SanitizeConfigs : ~c.sanitize /\ ~c.guardrails /\ ~c.schema }
  /\ schemaRegistry = [c \in {} |-> {}]
  /\ schemaCache = [c \in {} |-> {}]
  /\ indexRegistry = <<>>
  /\ rows = 0
  /\ pc = "idle"
  /\ call = NoCall
  /\ run = Run0(rows)
  /\ bidx = 0
  /\ bsteps = <<>>
  /\ txOpen = FALSE
  /\ txOps = <<>>
  /\ txLog = <<>>
  /\ rm = ReconnectManager(ReconnectOption("undefined", <<>>))
  /\ life = Life0

\* translateToSQL(f, dialect, k): the clause and the number of values are kept as
\* the statement of the run
TranslateToSQL ==
  /\ pc = "idle"
  /\ \E f \in TranslateFilters, d \in {"pg", "mysql2", "mssql", "sqlite"},
        k \in 1..MaxStartIdx :
       \E t \in { translateToSQL(f, d, k) } :
         /\ call' = [NoCall EXCEPT !.api = "translator", !.op = "translateToSQL",
                                   !.filter = f, !.lookupType = d, !.startIdx = k]
         /\ run' = IF t.err # "none" THEN Fail(Run0(rows), t.err)
                   ELSE [Return(Run0(rows)) EXCEPT !.stmts = <<Stmt(t.clause, d, t.n)>>]
  /\ pc' = "done"
  /\ UNCHANGED <<setup, rows, bidx, bsteps, txVars>>

NextTranslate == TranslateToSQL \/ Idle

SpecTranslate == InitTranslate /\ [][NextTranslate]_vars

\* ------------------------------------------------------------------------
\* Timestamp injection on its own: the two functions applied to documents and
\* updates whose timestamp keys are absent, set or undefined.
Times == {"T1", "T2"}

TimestampOptions ==
  { TimestampOption("false", "", ""), TimestampOption("true", "", ""),
    TimestampOption("names", "born", ""), TimestampOption("names", "", "modified") }

OptionalEntry(k, values) == { <<>> } \cup { <<KV(k, v)>> : v \in values }

InsertDocuments ==
  { n \o c \o u :
      n \in OptionalEntry("name", {Scalar("Alice")}),
      c \in OptionalEntry("created_at", {Date("T0"), Undefined}),
      u \in OptionalEntry("updated_at", {Date("T0"), Undefined}) }
  \cup { <<KV("born", Date("T0"))>>, <<KV("modified", Undefined), KV("name", Scalar("Bob"))>> }

SetObjects ==
  { r \o u \o c :
      r \in OptionalEntry("role", {Scalar("admin")}),
      u \in OptionalEntry("updated_at", {Date("T0"), Undefined}),
      c \in OptionalEntry("created_at", {Date("T0")}) }
  \cup { <<KV("modified", Date("T0"))>> }

UpdateObjects ==
  { i \o s \o p :
      i \in OptionalEntry("$inc", {Object(<<KV("loginCount", Scalar("1"))>>)}),
      s \in OptionalEntry("$set", {Undefined} \cup { Object(o) : o \in SetObjects }),
      p \in OptionalEntry("$unset", {Object(<<KV("tmp", Scalar("1"))>>)}) }

InitTimestamps ==
  /\ cfg \in { c \in SanitizeConfigs : ~c.sanitize /\ ~c.guardrails /\ ~c.schema }
  /\ schemaRegistry = [c \in {} |-> {}]
  /\ schemaCache = [c \in {} |-> {}]
  /\ indexRegistry = <<>>
  /\ rows = 0
  /\ pc = "idle"
  /\ call = NoCall
  /\ run = Run0(rows)
  /\ bidx = 0
  /\ bsteps = <<>>
  /\ txOpen = FALSE
  /\ txOps = <<>>
  /\ txLog = <<>>
  /\ rm = ReconnectManager(ReconnectOption("undefined", <<>>))
  /\ life = Life0

\* the call record keeps the argument as passed and as the call left it
Injected(op, arg, config, now, ret) ==
  /\ pc' = "done"
  /\ call' = [NoCall EXCEPT !.api = "timestamps", !.op = op, !.docs = <<arg, ret.arg>>,
                            !.timestampConfig = config, !.now = now]
  /\ run' = [Run0(rows) EXCEPT !.value = ret.ref, !.doc = ret.obj, !.status = "ok"]
  /\ UNCHANGED <<setup, rows, bidx, bsteps, txVars>>

InjectInsertTimestamps ==
  /\ pc = "idle"
  /\ \E doc \in InsertDocuments, o \in TimestampOptions, now \in Times :
       Injected("insert", doc, resolveTimestampConfig(o), now,
                injectInsertTimestampsObject(doc, resolveTimestampConfig(o), now))

InjectUpdateTimestamps ==
  /\ pc = "idle"
  /\ \E update \in UpdateObjects, o \in TimestampOptions, now \in Times :
       Injected("update", update, resolveTimestampConfig(o), now,
                injectUpdateTimestampsObject(update, resolveTimestampConfig(o), now))

NextTimestamps == InjectInsertTimestamps \/ InjectUpdateTimestamps \/ Idle

SpecTimestamps == InitTimestamps /\ [][NextTimestamps]_vars

\* ------------------------------------------------------------------------
\* The caller's sanitize rules on their own: applySanitizeRules over small maps
\* and rule lists of up to MaxRules rules.
MaxRules == 2

RuleData ==
  { n \o m \o a :
      n \in OptionalEntry("name", {Scalar("  TIM  "), Scalar("TIM"), Scalar("tim")}),
      m \in OptionalEntry("email", {Scalar("TIM"), Undefined}),
      a \in OptionalEntry("age", {Val("number", "30", <<>>)}) }

SanitizeRules ==
  { SanitizeRule(f, <<>>, t) : f \in {"undefined", "*"}, t \in {"trim", "lower", "mask"} }
  \cup { SanitizeRule("string", <<n>>, t) : n \in {"name", "email"}, t \in {"lower", "mask"} }
  \cup { SanitizeRule("array", <<"email", "name">>, "lower"),
          SanitizeRule("array", <<"name", "bio">>, "trim") }

RECURSIVE RuleLists(_)
RuleLists(n) ==
  IF n = 0 THEN { <<>> }
  ELSE RuleLists(n - 1)
       \cup { Append(l, r) : l \in { x \in RuleLists(n - 1) : Len(x) = n - 1 },
                             r \in SanitizeRules }

InitRules == InitTimestamps

ApplySanitizeRules ==
  /\ pc = "idle"
  /\ \E data \in RuleData, rules \in RuleLists(MaxRules) :
       With(applySanitizeRules(data, Collection, rules),
            LAMBDA ret :
              /\ pc' = "done"
              /\ call' = [NoCall EXCEPT !.api = "sanitizeRules", !.op = "apply",
                                        !.docs = <<data, ret.arg>>, !.rules = rules]
              /\ run' = [Run0(rows) EXCEPT !.value = ret.ref, !.doc = ret.obj,
                                           !.status = "ok"]
              /\ UNCHANGED <<setup, rows, bidx, bsteps, txVars>>)

NextRules == ApplySanitizeRules \/ Idle

SpecRules == InitRules /\ [][NextRules]_vars

\* ------------------------------------------------------------------------
\* Two callers in SqlAdapter.updateOne with upsert, on the same pool and the same
\* equality filter. Each statement is one execFn call; between the UPDATE and
\* the INSERT of performUpsert the caller awaits, and the other caller may run.
\* rows is the table, run.m the rows matching the filter, call.unique says
\* whether a unique index covers the filter's column.
Callers == 1..2

UpsertCaller(p, first, receipt, code) ==
  [pc |-> p, first |-> first, receipt |-> receipt, code |-> code]

UpsertUpdates == { Update(<<"name">>, <<>>, <<>>), Update(<<>>, <<"n">>, <<>>) }

InitUpsert ==
  /\ cfg \in { c \in Configs : c.guardrails /\ c.timestamps /\ c.sanitize /\ c.schema
                                  /\ c.rules /\ c.logging }
  /\ schemaRegistry = [c \in {} |-> {}]
  /\ schemaCache = [c \in {} |-> {}]
  /\ indexRegistry = <<>>
  /\ rows \in 0..1
  /\ pc = "idle"
  /\ \E update \in UpsertUpdates, unique \in BOOLEAN :
       call = [NoCall EXCEPT !.api = "adapter", !.op = "updateOne", !.filter = Fa,
                             !.update = update, !.upsert = TRUE, !.unique = unique,
                             !.rows0 = rows,
                             !.ops = [i \in Callers |->
                                        UpsertCaller("idle", Stmt(<<>>, "none", 0),
                                                     NoReceipt, "none")]]
  /\ run = Run0(rows)
  /\ bidx = 0
  /\ bsteps = <<>>
  /\ txOpen = FALSE
  /\ txOps = <<>>
  /\ txLog = <<>>
  /\ rm = ReconnectManager(ReconnectOption("undefined", <<>>))
  /\ life = Life0

UpsertSql ==
  limitUpdateOne(buildUpdateSQL(Collection, call.filter, call.update, cfg.dialect).sql,
                 Collection, translateToSQL(call.filter, cfg.dialect, 1).clause,
                 cfg.dialect)

\* updateOne(collection, filter, update, true) is called while no row matches
UpsertStart ==
  /\ \E i \in Callers :
       /\ call.ops[i].pc = "idle"
       /\ run.m = 0
       /\ call' = [call EXCEPT !.ops[i].pc = "update"]
  /\ UNCHANGED <<setup, rows, pc, run, bidx, bsteps, txVars>>

\* performUpsert, step 1: the UPDATE limited to one row; a row affected ends the call
UpsertUpdate ==
  /\ \E i \in Callers :
       /\ call.ops[i].pc = "update"
       /\ With(DriverExec(UpsertSql, rows, run.m), LAMBDA result :
            /\ call' =
                 [call EXCEPT !.ops[i] =
                    IF result.rowCount > 0
                      THEN UpsertCaller("done", Stmt(UpsertSql, "pool", result.rowCount),
                                        createReceipt("updateOne", Collection, "sql",
                                                      result.rowCount, result.rowCount, 0, 0),
                                        "none")
                      ELSE UpsertCaller("insert", Stmt(UpsertSql, "pool", result.rowCount),
                                        NoReceipt, "none")]
            /\ run' = [run EXCEPT !.stmts = Append(@, Stmt(UpsertSql, "pool",
                                                           result.rowCount))])
  /\ UNCHANGED <<setup, rows, pc, bidx, bsteps, txVars>>

\* performUpsert, step 2: the INSERT of the filter's equality fields and $set; the
\* new row matches the filter. Under a unique index a second such row is
\* refused and the driver's error is mapped by mapNativeError.
UpsertInsert ==
  /\ \E i \in Callers :
       /\ call.ops[i].pc = "insert"
       /\ IF call.unique /\ run.m > 0
            THEN /\ call' = [call EXCEPT !.ops[i].pc = "failed",
                                         !.ops[i].code =
                                           mapNativeError("sql",
                                             NativeError("23505", {}, "none")).code]
                 /\ UNCHANGED <<rows, run>>
            ELSE With(upsertInsert("pool", Collection, upsertDoc(call.filter, call.update),
                                   cfg.dialect, call.ops[i].first, rows, 0),
                      LAMBDA a :
                        /\ call' = [call EXCEPT !.ops[i].pc = "done",
                                                !.ops[i].receipt = a.receipt]
                        /\ rows' = a.rows
                        /\ run' = [run EXCEPT !.stmts = Append(@, a.stmts[2]),
                                              !.m = @ + 1])
  /\ UNCHANGED <<setup, pc, bidx, bsteps, txVars>>

NextUpsert == UpsertStart \/ UpsertUpdate \/ UpsertInsert

SpecUpsert == InitUpsert /\ [][NextUpsert]_vars

\* ------------------------------------------------------------------------
\* The two translations side by side: one filter, translated for SQL and for
\* Elasticsearch, asked about one document of a small data set.
DataSet == { [a |-> x, b |-> y] : x \in {{}, {1}, {2}, {3}}, y \in {{}, {1}, {2}} }

FieldFilters ==
  { <<Equals("a", 2)>>, <<Entry("a", "null")>>, <<Equals("a", 2), Equals("b", 1)>> }
  \cup { <<Bag("a", <<OpVal(o, <<2>>)>>)>> : o \in {"$eq", "$ne"} \cup RangeOps }
  \cup { <<Bag("a", <<o>>)>> :
           o \in { OpNull("$eq"), OpNull("$ne"), Op("$exists"), OpNull("$exists") } }
  \cup { <<Bag("a", <<OpVal(o, vals)>>)>> : o \in {"$in", "$nin"}, vals \in {<<>>, <<1, 2>>} }
  \cup { <<Bag("a", <<OpVal("$gt", <<1>>), OpVal("$lt", <<3>>)>>)>>,
          <<Bag("a", <<OpVal("$gte", <<2>>)>>), Bag("b", <<OpVal("$in", <<1>>)>>)>> }
  \cup { <<Bag("a", <<OpNot(sub)>>)>> :
           sub \in { <<OpVal("$gt", <<1>>)>>, <<OpVal("$in", <<1, 2>>)>>,
                     <<OpVal("$gt", <<1>>), OpVal("$lt", <<3>>)>>,
                     <<OpVal("$eq", <<1>>), OpVal("$gt", <<0>>)>>,
                     <<OpNull("$exists")>> } }

LogicalFilters ==
  { <<Logical(k, subs)>> :
      k \in LogicalKeys,
      subs \in { <<>>, << <<Equals("a", 2)>> >>,
                 << <<Equals("a", 2)>>, <<Equals("b", 1)>> >>,
                 << <<Bag("a", <<OpVal("$nin", <<>>)>>)>>, <<Equals("b", 1)>> >>,
                 << <<Logical("$or", <<>>)>>, <<Equals("b", 1)>> >> } }
  \cup { <<Equals("b", 1), Logical("$or", <<>>)>>,
          <<Logical("$and", << <<Logical("$nor", << <<Entry("a", "null")>> >>)>>,
                               <<Bag("b", <<OpVal("$lte", <<1>>)>>)>> >>)>> }

SelectFilters == {<<>>} \cup FieldFilters \cup LogicalFilters

InitSelect == InitTimestamps

Selected(target, selected) == [target |-> target, selected |-> selected]

\* the filter is translated for both targets and each query is run on the document
TranslateBoth ==
  /\ pc = "idle"
  /\ \E filter \in SelectFilters, doc \in DataSet :
       /\ pc' = "done"
       /\ call' = [NoCall EXCEPT !.api = "translators", !.op = "select",
                                 !.filter = filter, !.docs = <<doc>>]
       /\ run' = [Run0(rows) EXCEPT
                    !.doc = <<Selected("sql", sqlSelects(filter, doc)),
                              Selected("elastic", elasticSelects(filter, doc))>>,
                    !.status = "ok"]
  /\ UNCHANGED <<setup, rows, bidx, bsteps, txVars>>

NextSelect == TranslateBoth \/ Idle

SpecSelect == InitSelect /\ [][NextSelect]_vars

\* ------------------------------------------------------------------------
\* The dry-run operations: validate() and explain() on a façade whose collection
\* has a schema registered by registerCollection (an object schema or one wrapped
\* in a refinement) or none.
ValidationError(field, message) == [field |-> field, message |-> message]

\* validate(collection, { filter, doc }): the top-level keys of the filter against
\* the names of the schema's fields, then the document against the schema
validate(registry, collection, filter, docs) ==
  (IF collection \in DOMAIN registry
     THEN [i \in 1..Len(SelectSeq(filter, LAMBDA entry :
                           /\ entry.key \notin DollarKeys
                           /\ entry.key \notin extractFieldInfo(registry[collection]))) |->
             ValidationError(SelectSeq(filter, LAMBDA entry :
                               /\ entry.key \notin DollarKeys
                               /\ entry.key \notin extractFieldInfo(registry[collection]))[i].key,
                             "Unknown field")]
     ELSE <<>>)
  \o (IF docs # <<>> /\ ~validateDocument(registry, collection, docs[1])
        THEN <<ValidationError("", "issue")>> ELSE <<>>)

\* explain(collection, { filter }) on the relational backend: the text of the SELECT
explain(c, collection, filter) ==
  buildSelectSQL(collection, filter, [dialect |-> c.dialect, sort |-> <<>>, limit |-> {}])

Schemas == { Schema("ZodObject", SchemaFields), Schema("ZodEffects", SchemaFields) }

ValidateFilters == Filters \cup { <<Entry("z", "scalar")>>, <<Entry("a", "scalar"), Entry("z", "null")>> }

InitValidate ==
  /\ cfg \in { c \in Configs : c.sanitize /\ c.guardrails /\ c.schema /\ c.rules
                                  /\ c.logging /\ c.timestamps }
  /\ \E registered \in SUBSET {Collection}, schema \in Schemas :
       /\ schemaRegistry = [c \in registered |-> schema]
       /\ schemaCache = [c \in registered |-> extractFieldNames(schema)]
  /\ indexRegistry = <<>>
  /\ rows \in 0..1
  /\ pc = "idle"
  /\ call = NoCall
  /\ run = Run0(rows)
  /\ bidx = 0
  /\ bsteps = <<>>
  /\ txOpen = FALSE
  /\ txOps = <<>>
  /\ txLog = <<>>
  /\ rm = ReconnectManager(ReconnectOption("undefined", <<>>))
  /\ life = Life0

Validate ==
  /\ pc = "idle"
  /\ \E f \in ValidateFilters, docs \in { <<>> } \cup { <<d>> : d \in Docs } :
       /\ pc' = "done"
       /\ call' = [Facade("validate") EXCEPT !.filter = f, !.docs = docs]
       /\ run' = [Run0(rows) EXCEPT
                    !.doc = validate(schemaRegistry, Collection, f, docs),
                    !.value = IF validate(schemaRegistry, Collection, f, docs) = <<>>
                                THEN "valid" ELSE "invalid",
                    !.status = "ok"]
  /\ UNCHANGED <<setup, rows, bidx, bsteps, txVars>>

Explain ==
  /\ pc = "idle"
  /\ \E f \in ValidateFilters :
       /\ pc' = "done"
       /\ call' = [Facade("explain") EXCEPT !.filter = f]
       /\ run' = IF explain(cfg, Collection, f).err # "none"
                   THEN Fail(Run0(rows), explain(cfg, Collection, f).err)
                   ELSE [Run0(rows) EXCEPT !.value = "native", !.status = "ok"]
  /\ UNCHANGED <<setup, rows, bidx, bsteps, txVars>>

NextValidate == Validate \/ Explain \/ Idle

SpecValidate == InitValidate /\ [][NextValidate]_vars

\* ------------------------------------------------------------------------
\* The registries on their own: the module-level maps of schema.ts and the
\* whitelist of sanitize.ts under registerCollection, registerIndex and
\* clearRegistry, starting empty.
MaxIndexes == 2

CollectionNames == {Collection, "orders"}

IndexDefinition(collection, field) == [collection |-> collection, field |-> field]

IndexLists ==
  { <<>>, <<IndexDefinition(Collection, "a")>>,
    <<IndexDefinition("orders", "id"), IndexDefinition("orders", "a")>> }

CollectionSchema(name, schema, indexes) ==
  [name |-> name, schema |-> schema, indexes |-> indexes]

RegistrySchemas ==
  Schemas \cup { Schema("ZodObject", {"id", "a"}), Schema("ZodString", {}) }

registerFields(cache, collection, fields) ==
  [c \in DOMAIN cache \cup {collection} |-> IF c = collection THEN fields ELSE cache[c]]

InitRegistry ==
  /\ cfg \in { c \in Configs : c.sanitize /\ c.guardrails /\ c.schema /\ c.rules
                                  /\ c.logging /\ c.timestamps /\ c.dialect = "pg" }
  /\ schemaRegistry = [c \in {} |-> {}]
  /\ schemaCache = [c \in {} |-> {}]
  /\ indexRegistry = <<>>
  /\ rows = 0
  /\ pc = "idle"
  /\ call = NoCall
  /\ run = Run0(rows)
  /\ bidx = 0
  /\ bsteps = <<>>
  /\ txOpen = FALSE
  /\ txOps = <<>>
  /\ txLog = <<>>
  /\ rm = ReconnectManager(ReconnectOption("undefined", <<>>))
  /\ life = Life0

registryFrame == <<cfg, rm, life, rows, pc, call, run, bidx, bsteps, txVars>>

RegisterCollection ==
  /\ \E name \in CollectionNames, schema \in RegistrySchemas, indexes \in IndexLists :
       /\ Len(indexRegistry) + Len(indexes) <= MaxIndexes
       /\ schemaRegistry' =
            [c \in DOMAIN schemaRegistry \cup {name} |->
               IF c = name THEN schema ELSE schemaRegistry[c]]
       /\ schemaCache' = registerFields(schemaCache, name, extractFieldNames(schema))
       /\ indexRegistry' = indexRegistry \o indexes
  /\ UNCHANGED registryFrame

RegisterIndex ==
  /\ Len(indexRegistry) < MaxIndexes
  /\ \E name \in CollectionNames :
       indexRegistry' = Append(indexRegistry, IndexDefinition(name, "a"))
  /\ UNCHANGED <<schemaRegistry, schemaCache, registryFrame>>

\* clearRegistry(): schemaRegistry.clear(); indexRegistry.length = 0
ClearRegistry ==
  /\ schemaRegistry' = [c \in {} |-> {}]
  /\ indexRegistry' = <<>>
  /\ UNCHANGED <<schemaCache, registryFrame>>

NextRegistry == RegisterCollection \/ RegisterIndex \/ ClearRegistry

SpecRegistry == InitRegistry /\ [][NextRegistry]_vars

\* ------------------------------------------------------------------------
\* The writes of the MongoDB adapters: MongoAdapter on the pool and
\* MongoTransactionAdapter on a session. The collection holds `rows` documents,
\* m of them match the filter; `changes` says whether the update alters the
\* documents it matches.
DriverResult(matched, modified, upserted, inserted, deleted) ==
  [matchedCount |-> matched, modifiedCount |-> modified, upsertedCount |-> upserted,
   insertedCount |-> inserted, deletedCount |-> deleted]

\* what the driver does and reports
mongoDriver(operation, m, changes, upsert, docs) ==
  CASE operation = "insertOne" -> DriverResult(0, 0, 0, 1, 0)
    [] operation = "insertMany" -> DriverResult(0, 0, 0, Len(docs), 0)
    [] operation = "updateOne" ->
         DriverResult(Min(1, m), IF changes THEN Min(1, m) ELSE 0,
                      IF upsert /\ m = 0 THEN 1 ELSE 0, 0, 0)
    [] operation = "updateMany" -> DriverResult(m, IF changes THEN m ELSE 0, 0, 0, 0)
    [] operation = "deleteOne" -> DriverResult(0, 0, 0, 0, Min(1, m))
    [] operation = "deleteMany" -> DriverResult(0, 0, 0, 0, m)

\* MongoTransactionAdapter: the counts of the driver's result
mongoTransactionReceipt(operation, result, docs) ==
  CASE operation = "insertOne" -> createReceipt(operation, Collection, "mongo", 0, 0, 1, 0)
    [] operation = "insertMany" ->
         createReceipt(operation, Collection, "mongo", 0, 0, Len(docs), 0)
    [] operation \in {"updateOne", "updateMany"} ->
         createReceipt(operation, Collection, "mongo", result.matchedCount,
                       result.modifiedCount, 0, 0)
    [] operation \in {"deleteOne", "deleteMany"} ->
         createReceipt(operation, Collection, "mongo", 0, 0, 0, result.deletedCount)

\* MongoAdapter: the helper's result is not read
mongoReceipt(operation, result, docs) ==
  CASE operation = "insertOne" -> createReceipt(operation, Collection, "mongo", 0, 0, 1, 0)
    [] operation = "insertMany" ->
         createReceipt(operation, Collection, "mongo", 0, 0, Len(docs), 0)
    [] operation \in {"updateOne", "updateMany"} ->
         createReceipt(operation, Collection, "mongo", 1, 1, 0, 0)
    [] operation \in {"deleteOne", "deleteMany"} ->
         createReceipt(operation, Collection, "mongo", 0, 0, 0, 1)

InitMongo ==
  /\ cfg \in { c \in ErrConfigs : c.backend = "mongo" }
  /\ schemaRegistry = [c \in {} |-> {}]
  /\ schemaCache = [c \in {} |-> {}]
  /\ indexRegistry = <<>>
  /\ rows \in 0..MaxRows
  /\ pc = "idle"
  /\ call = NoCall
  /\ run = Run0(rows)
  /\ bidx = 0
  /\ bsteps = <<>>
  /\ txOpen = FALSE
  /\ txOps = <<>>
  /\ txLog = <<>>
  /\ rm = ReconnectManager(ReconnectOption("undefined", <<>>))
  /\ life = Life0

\* one write of either adapter: the driver acts, the adapter builds the receipt
MongoWrite(operation, handle, m, changes, upsert, docs) ==
  With(mongoDriver(operation, m, changes, upsert, docs), LAMBDA result :
    /\ rows + result.insertedCount + result.upsertedCount - result.deletedCount <= MaxRows
    /\ pc' = "done"
    /\ call' = [NoCall EXCEPT !.api = "adapter", !.op = operation, !.upsert = upsert,
                              !.docs = docs, !.rows0 = rows,
                              !.filter = IF operation \in {"insertOne", "insertMany"}
                                           THEN <<>> ELSE Fa]
    /\ rows' = rows + result.insertedCount + result.upsertedCount - result.deletedCount
    /\ run' = [Run0(rows') EXCEPT
                 !.stmts = <<Stmt(<<operation, Collection>>, handle,
                                  result.matchedCount + result.insertedCount
                                  + result.upsertedCount + result.deletedCount)>>,
                 !.m = m, !.doc = <<result>>, !.status = "ok",
                 !.receipt = IF handle = "session"
                               THEN mongoTransactionReceipt(operation, result, docs)
                               ELSE mongoReceipt(operation, result, docs)]
    /\ UNCHANGED <<setup, bidx, bsteps, txVars>>)

Handles == {"pool", "session"}

MongoInsertOne ==
  /\ pc = "idle"
  /\ \E h \in Handles, d \in Docs : MongoWrite("insertOne", h, 0, FALSE, FALSE, <<d>>)

MongoInsertMany ==
  /\ pc = "idle"
  /\ \E h \in Handles, ds \in DocLists \ { <<>> } :
       MongoWrite("insertMany", h, 0, FALSE, FALSE, ds)

MongoUpdateOne ==
  /\ pc = "idle"
  /\ \E h \in Handles, m \in 0..rows, changes \in BOOLEAN, upsert \in BOOLEAN :
       MongoWrite("updateOne", h, m, changes, upsert, <<>>)

MongoUpdateMany ==
  /\ pc = "idle"
  /\ \E h \in Handles, m \in 0..rows, changes \in BOOLEAN :
       MongoWrite("updateMany", h, m, changes, FALSE, <<>>)

MongoDeleteOne ==
  /\ pc = "idle"
  /\ \E h \in Handles, m \in 0..rows : MongoWrite("deleteOne", h, m, FALSE, FALSE, <<>>)

MongoDeleteMany ==
  /\ pc = "idle"
  /\ \E h \in Handles, m \in 0..rows : MongoWrite("deleteMany", h, m, FALSE, FALSE, <<>>)

NextMongo ==
  \/ MongoInsertOne \/ MongoInsertMany \/ MongoUpdateOne \/ MongoUpdateMany
  \/ MongoDeleteOne \/ MongoDeleteMany \/ Idle

SpecMongo == InitMongo /\ [][NextMongo]_vars

\* ================================================================== claims
FacadeReturned(op) == pc = "done" /\ call.api = "facade" /\ call.op = op

OperationEvents(events) == { i \in 1..Len(events) : events[i].type = "operation" }

\* the decision table of the guardrails: the calls that are to be blocked
Blocks(c) ==
  /\ c.enabled
  /\ \/ c.op = "deleteMany" /\ Len(c.filter) = 0 /\ c.confirm # "DELETE_ALL"
     \/ c.op = "updateMany" /\ Len(c.filter) = 0 /\ c.confirm # "UPDATE_ALL"
     \/ c.op = "deleteOne" /\ Len(c.filter) = 0
     \/ c.op = "queryMany" /\ c.limit = {}

\* C1: checkGuardrails throws GUARDRAIL_BLOCKED if and only if guardrails are
\* enabled and the call is deleteMany/updateMany with a zero-key filter and without
\* its confirmation token, deleteOne with a zero-key filter, or queryMany without a
\* limit; otherwise it returns normally and publishes nothing; when it throws,
\* exactly one guardrail-blocked event with the collection, operation and reason
\* has been published before the throw.
C1_GuardrailDecisionTable ==
  (pc = "done" /\ call.api = "checkGuardrails") =>
    IF Blocks(call)
    THEN /\ run.status = "error"
         /\ run.code = "GUARDRAIL_BLOCKED"
         /\ Len(run.events) = 1
         /\ run.events[1].type = "guardrail-blocked"
         /\ run.events[1].collection = Collection
         /\ run.events[1].operation = call.op
         /\ run.events[1].reason # ""
         /\ run.trace = <<"emit", "throw">>
    ELSE /\ run.status = "ok"
         /\ run.code = "none"
         /\ run.events = <<>>

\* deleteMany on an empty filter with the token of another operation is blocked
C1_Witness ==
  /\ pc = "done" /\ call.api = "checkGuardrails"
  /\ call.enabled /\ call.op = "deleteMany" /\ call.filter = <<>>
  /\ call.confirm = "UPDATE_ALL"
  /\ run.code = "GUARDRAIL_BLOCKED" /\ Len(run.events) = 1

\* C2: with guardrails enabled, the adapter is never called for a step of batch()
\* that the guardrail decision of the corresponding direct call rejects (deleteMany
\* or updateMany with an empty filter and no token, deleteOne with an empty filter).
C2_BatchStepsGuarded ==
  (call.api = "batch" /\ cfg.guardrails) =>
    \A i \in 1..CountTok(run.trace, "adapter") :
      ~checkGuardrails(TRUE, call.ops[i].op, Collection, call.ops[i].filter,
                       "undefined", {}).threw

\* C3: for every dialect, every update and every filter whose WHERE clause is not
\* the trivial 1=1, the statement executed for updateOne carries the dialect's
\* single-row limiter and modifies at most one row.
C3_UpdateOneSingleRow ==
  (/\ FacadeReturned("updateOne")
   /\ run.stmts # <<>>
   /\ translateToSQL(call.filter, cfg.dialect, 1).clause # <<"1=1">>) =>
    /\ Limited(run.stmts[1].sql)
    /\ run.stmts[1].rowCount <= 1

\* C4: with guardrails enabled, every deleteOne issued through the facade executes
\* a DELETE limited to a single row and deletes at most one row.
C4_DeleteOneSingleRow ==
  (FacadeReturned("deleteOne") /\ cfg.guardrails /\ run.stmts # <<>>) =>
    /\ Limited(run.stmts[1].sql)
    /\ call.rows0 - rows <= 1

\* the inputs the three rejecting stages refuse
FilterOperations ==
  {"queryOne", "queryMany", "queryWithLookup", "count", "updateOne", "updateMany",
   "deleteOne", "deleteMany"}
SanitizerRejects ==
  /\ cfg.sanitize /\ call.op \in FilterOperations
  /\ ~sanitizeFilter(schemaCache, Collection, call.filter, cfg.backend)
GuardrailRejects ==
  /\ cfg.guardrails
  /\ checkGuardrails(TRUE, call.op, Collection, call.filter, call.confirm, call.limit).threw
ValidationRejects ==
  /\ cfg.schema /\ call.op \in {"insertOne", "insertMany"}
  /\ \E i \in 1..Len(call.docs) : ~validateDocument(schemaRegistry, Collection, call.docs[i])

\* C5: in each of the ten facade operations, an input that the sanitizer, a
\* guardrail or schema validation rejects makes the call fail before any driver
\* round-trip and without an operation event; an insertMany with an invalid
\* document fails with VALIDATION_ERROR and inserts none of its documents.
C5_RejectedBeforeDriver ==
  (pc = "done" /\ call.api = "facade") =>
    /\ (SanitizerRejects \/ GuardrailRejects \/ ValidationRejects) =>
         /\ run.status = "error"
         /\ run.code \in {"QUERY_ERROR", "GUARDRAIL_BLOCKED", "VALIDATION_ERROR"}
         /\ run.stmts = <<>>
         /\ rows = call.rows0
         /\ OperationEvents(run.events) = {}
    /\ ValidationRejects =>
         /\ run.code = "VALIDATION_ERROR"
         /\ rows = call.rows0

\* an insertMany whose second document is invalid is refused whole
C5_Witness ==
  /\ FacadeReturned("insertMany") /\ cfg.schema
  /\ Len(call.docs) = 2 /\ call.docs[1].valid /\ ~call.docs[2].valid
  /\ run.code = "VALIDATION_ERROR" /\ run.stmts = <<>>

\* the position of a stage in the documented order
StageRank(stage) ==
  CASE stage \in {"sanitize", "rules"} -> 1
    [] stage = "guardrail" -> 2
    [] stage = "validate" -> 3
    [] stage = "timestamp" -> 4
    [] stage = "adapter" -> 5
    [] stage = "receipt" -> 6
    [] stage = "event" -> 7

\* C6: within one facade call the stages run in the order sanitize (the
\* caller's sanitize rules included), guardrail, schema validation, timestamps,
\* adapter, receipt, event: no stage starts before an earlier applicable one.
C6_FixedStageOrder ==
  (pc = "done" /\ call.api = "facade") =>
    \A i, j \in 1..Len(run.trace) :
      i < j => StageRank(run.trace[i]) <= StageRank(run.trace[j])

\* the columns an upsert is to insert: the filter's equality fields and $set
UpsertColumns ==
  { call.filter[i].key : i \in { k \in 1..Len(call.filter) :
        /\ call.filter[k].key \notin DollarKeys
        /\ call.filter[k].kind \in {"scalar", "undefined", "null", "date"} } }
  \cup { injectUpdateTimestamps(call.update, cfg.timestamps).set[i] :
           i \in 1..Len(injectUpdateTimestamps(call.update, cfg.timestamps).set) }

RECURSIVE SumOf(_, _)
SumOf(receipts, count) ==
  IF Len(receipts) = 0 THEN 0 ELSE receipts[1][count] + SumOf(Tail(receipts), count)

\* C8: a successful batch() has executed its records in order and returns one
\* receipt with operation and collection 'batch' whose inserted, modified and
\* deleted counts are the sums of the counts of the steps' receipts.
C8_BatchReceiptSums ==
  (pc = "done" /\ call.api = "batch" /\ run.status = "ok") =>
    /\ Len(bsteps) = Len(call.ops)
    /\ \A i \in 1..Len(bsteps) : bsteps[i].operation = call.ops[i].op
    /\ run.receipt.operation = "batch"
    /\ run.receipt.collection = "batch"
    /\ run.receipt.insertedCount = SumOf(bsteps, "insertedCount")
    /\ run.receipt.modifiedCount = SumOf(bsteps, "modifiedCount")
    /\ run.receipt.deletedCount = SumOf(bsteps, "deletedCount")

\* C9: when a step of batch() fails, none of the effects of the earlier steps
\* remains in the database, and the caller gets the failure with no batch receipt
\* and no operation event.
C9_BatchAllOrNothing ==
  (pc = "done" /\ call.api = "batch" /\ run.status = "error") =>
    /\ rows = call.rows0
    /\ run.receipt = NoReceipt
    /\ OperationEvents(run.events) = {}

\* C10: every statement of an operation of a transactional scope goes to the
\* scope's transaction handle, and the statements of one operation of the scope
\* are never interleaved with those of another one.
C10_ScopeOperationsSerialized ==
  /\ \A k \in 1..Len(txLog) : txLog[k].handle = "tx"
  /\ \A i, j, k \in 1..Len(txLog) :
       (i < j /\ j < k /\ txLog[i].op = txLog[k].op) => txLog[j].op = txLog[i].op

\* ---------------------------------------------------------------- lookups
LookupReturned ==
  pc = "done" /\ call.api = "adapter" /\ call.op = "queryWithLookup" /\ run.status = "ok"

\* the main query asks for one row and carries the caller's sort
MainQueryLimitedSorted(text) ==
  IF cfg.backend = "sql"
    THEN Limited(text) /\ (call.sort # <<>> => Contains(text, "ORDER BY"))
    ELSE IndexFrom(text, <<"size", "1">>, 1) > 0
         /\ (call.sort # <<>> => Contains(text, "sort"))

\* the second query is an equality on foreignField in the foreign collection
RelatedQuery(text) ==
  IF cfg.backend = "sql"
    THEN Contains(text, quoteIdentifier("orders")) /\ Contains(text, quoteIdentifier("user_id"))
    ELSE Contains(text, "orders") /\ IndexFrom(text, <<"term", "user_id">>, 1) > 0

\* C11: on the relational and on the search-engine adapter a lookup runs the main
\* query limited to one row with the caller's sort; no row gives null with no
\* second query; a null local value gives the row with an empty sequence under the
\* alias for a left join and null for an inner join, with no second query;
\* otherwise the second query runs and its rows are attached under the alias.
C11_TwoQueryLookup ==
  LookupReturned =>
    /\ Len(run.stmts) >= 1
    /\ MainQueryLimitedSorted(run.stmts[1].sql)
    /\ run.stmts[1].rowCount = 0 => (run.value = "null" /\ Len(run.stmts) = 1)
    /\ (run.stmts[1].rowCount > 0 /\ call.localNull) =>
         /\ Len(run.stmts) = 1
         /\ run.value = (IF call.lookupType = "left" THEN "row+[]" ELSE "null")
    /\ (run.stmts[1].rowCount > 0 /\ ~call.localNull) =>
         /\ Len(run.stmts) = 2
         /\ RelatedQuery(run.stmts[2].sql)
         /\ \/ call.lookupType = "inner" /\ run.stmts[2].rowCount = 0
            \/ run.stmts[2].rowCount = 0 /\ run.value = "row+[]"
            \/ run.stmts[2].rowCount > 0 /\ run.value \in {"row+rows", "row+first"}

\* C12: a lookup with an unwind path that finds at least one related row returns
\* the first related row under the alias, on the relational adapter (pool and
\* transaction) and on the search-engine adapter.
C12_UnwindFirstRelated ==
  (LookupReturned /\ call.unwind /\ Len(run.stmts) = 2 /\ run.stmts[2].rowCount > 0)
    => run.value = "row+first"

\* ----------------------------------------------------------------- errors
\* C13: every failure of a driver call made by an adapter operation reaches the
\* caller as a StrictDBError with one of the 14 codes, and an error that already is
\* a StrictDBError reaches the caller unchanged.
C13_DriverFailuresNormalized ==
  (pc = "done" /\ call.api = "adapter" /\ run.cause # NoError) =>
    /\ run.error.kind = "strict"
    /\ run.error.code \in StrictErrorCodes
    /\ run.cause.kind = "strict" => run.error = run.cause

\* C14: every StrictDBError the layer raises is retryable exactly when its code is
\* CONNECTION_FAILED, CONNECTION_LOST, TIMEOUT or POOL_EXHAUSTED.
C14_RetryableIffCode ==
  (pc = "done" /\ run.error.kind = "strict") =>
    (run.error.retryable <=>
       run.error.code \in {"CONNECTION_FAILED", "CONNECTION_LOST", "TIMEOUT",
                           "POOL_EXHAUSTED"})

\* -------------------------------------------------------------- reconnect
ReconnectingEvents(events) == { i \in 1..Len(events) : events[i].type = "reconnecting" }

\* C15: the events of one reconnect() call are one disconnected, then reconnecting
\* (k, maxAttempts, delay) before the k-th connectFn, ending with reconnected right
\* after the first success (attempts 0, result true) or with an error event of code
\* CONNECTION_LOST published only after maxAttempts attempts have failed; connectFn
\* runs at most maxAttempts times and attempts never exceeds maxAttempts.
C15_ReconnectEventSequence ==
  /\ rm.connects <= rm.config.maxAttempts
  /\ rm.attempts <= rm.config.maxAttempts
  /\ rm.events # <<>> =>
       /\ rm.events[1].type = "disconnected"
       /\ \A i \in 2..Len(rm.events) :
            /\ rm.events[i].type # "disconnected"
            /\ rm.events[i].type = "reconnecting" =>
                 /\ rm.events[i].attempt = i - 1
                 /\ rm.events[i].maxAttempts = rm.config.maxAttempts
            /\ rm.events[i].type \in {"reconnected", "error"} => i = Len(rm.events)
       /\ rm.connects <= Cardinality(ReconnectingEvents(rm.events))
       /\ rm.events[Len(rm.events)].type = "reconnected" =>
            /\ rm.failed = rm.connects - 1
            /\ rm.attempts = 0
            /\ rm.result = "true"
       /\ rm.events[Len(rm.events)].type = "error" =>
            /\ rm.events[Len(rm.events)].code = "CONNECTION_LOST"
            /\ rm.failed = rm.config.maxAttempts
       /\ rm.pc = "returned" =>
            rm.events[Len(rm.events)].type \in {"reconnected", "error"}

\* C17 as stated: the delay of attempt n lies within 25% of
\* min(initialDelayMs * backoffMultiplier^(n-1), maxDelayMs) and never exceeds
\* 1.25 * maxDelayMs; with no reconnect configuration the defaults are used.
C17_DelayWithinQuarter ==
  /\ ReconnectManager(ReconnectOption("undefined", <<>>)).config =
       [enabled |-> TRUE, maxAttempts |-> 10, initialDelayMs |-> 1000,
        maxDelayMs |-> 30000, backoffMultiplier |-> 2]
  /\ rm.attempts >= 1 =>
       /\ 4 * rm.delay >= 3 * cappedDelay(rm.config, rm.attempts)
       /\ 4 * rm.delay <= 5 * cappedDelay(rm.config, rm.attempts)
       /\ 4 * rm.delay <= 5 * rm.config.maxDelayMs

\* C17 amended: the delay is the rounding of a value within 25% of the capped
\* delay, so it lies within half a millisecond of that band and never exceeds
\* 1.25 * maxDelayMs + 0.5; with no reconnect configuration the defaults are used.
C17_DelayWithinQuarterRounded ==
  /\ ReconnectManager(ReconnectOption("undefined", <<>>)).config =
       [enabled |-> TRUE, maxAttempts |-> 10, initialDelayMs |-> 1000,
        maxDelayMs |-> 30000, backoffMultiplier |-> 2]
  /\ rm.attempts >= 1 =>
       /\ 4 * rm.delay >= 3 * cappedDelay(rm.config, rm.attempts) - 2
       /\ 4 * rm.delay <= 5 * cappedDelay(rm.config, rm.attempts) + 2
       /\ 4 * rm.delay <= 5 * rm.config.maxDelayMs + 2

\* the cap is in force: a late attempt of the default configuration
C17_Witness ==
  /\ rm.config = DEFAULTS
  /\ rm.attempts = 10
  /\ rm.delay > 30000

\* an operation on an established connection has failed with CONNECTION_LOST
\* while the reconnect manager is enabled and running
ConnectionDropped ==
  /\ pc = "done"
  /\ call.api = "adapter"
  /\ call.op \notin {"connect", "close"}
  /\ run.error.code = "CONNECTION_LOST"
  /\ rm.config.enabled
  /\ ~rm.stopped

\* C16: when a driver call on an established connection fails with a
\* connection-level error and reconnect is enabled, the adapter's reconnect manager
\* is started (unless the adapter is closed first): its disconnected event is
\* published, and it has not ended before a reconnected event or an error event of
\* code CONNECTION_LOST.
C16_DropStartsReconnect ==
  ConnectionDropped ~>
    \/ rm.stopped
    \/ /\ rm.events # <<>>
       /\ rm.events[1].type = "disconnected"
       /\ rm.pc \in {"idle", "returned"} =>
            rm.events[Len(rm.events)].type \in {"reconnected", "error"}

ShutdownEvents == { i \in 1..Len(life.events) : life.events[i].type = "shutdown" }

\* C18: close() and gracefulShutdown(exitCode) return only when no operation that
\* was in flight at the call is still in flight, the reconnect manager is stopped
\* and the pool is closed; gracefulShutdown publishes exactly one shutdown event,
\* carrying exitCode, and the event is published only once the operations in
\* flight have settled and the pool is closed.
C18_ShutdownAfterDrain ==
  /\ (pc = "done" /\ call.op \in {"close", "gracefulShutdown"} /\ run.status = "ok") =>
       /\ life.inflight = 0
       /\ life.pool = "closed"
       /\ rm.stopped
       /\ rm.pc # "connect"
  /\ (pc = "done" /\ call.op = "gracefulShutdown" /\ run.status = "ok") =>
       Cardinality(ShutdownEvents) = 1
  /\ \A i \in ShutdownEvents :
       /\ life.events[i].exitCode = call.exitCode
       /\ life.inflight = 0
       /\ life.pool = "closed"

\* ------------------------------------------------------------------ logger
WriteOperations ==
  {"insertOne", "insertMany", "updateOne", "updateMany", "deleteOne", "deleteMany",
   "batch"}

SlowQueryEvents(events) == { i \in 1..Len(events) : events[i].type = "slow-query" }

\* C19: a facade write that returns its receipt with logging enabled has published
\* exactly one operation event, carrying that receipt and its duration, after the
\* (last) adapter call, followed directly by one slow-query event if and only if
\* the duration is at least slowQueryMs; a write that fails, a batch still running,
\* and any write with logging disabled publish neither event.
C19_OneOperationEventPerReceipt ==
  /\ (pc = "done" /\ call.api \in {"facade", "batch"} /\ call.op \in WriteOperations) =>
       /\ (run.status = "ok" /\ cfg.logging) =>
            /\ Cardinality(OperationEvents(run.events)) = 1
            /\ \A i \in OperationEvents(run.events) :
                 /\ run.events[i].receipt = run.receipt
                 /\ run.events[i].durationMs = run.duration
                 /\ run.events[i].operation = call.op
                 /\ SlowQueryEvents(run.events) =
                      IF run.duration >= slowQueryMs THEN {i + 1} ELSE {}
            /\ run.trace[Len(run.trace)] = "event"
            /\ \A k \in 1..Len(run.trace) : run.trace[k] = "event" => k = Len(run.trace)
       /\ (run.status # "ok" \/ ~cfg.logging) =>
            /\ OperationEvents(run.events) = {}
            /\ SlowQueryEvents(run.events) = {}
  /\ pc = "batch" =>
       /\ OperationEvents(run.events) = {}
       /\ SlowQueryEvents(run.events) = {}

\* a batch of at least one operation returned its receipt on the threshold
C19_Witness ==
  /\ pc = "done"
  /\ call.op = "batch"
  /\ Len(call.ops) >= 1
  /\ run.status = "ok"
  /\ cfg.logging
  /\ run.duration = slowQueryMs
  /\ Len(run.events) = 2

\* ---------------------------------------------------------------- whitelist
\* the keys of a filter that do not start with $, at any depth of $and/$or/$nor
RECURSIVE FieldKeys(_)
FieldKeys(filter) ==
  UNION { IF filter[i].kind = "logical"
            THEN UNION { FieldKeys(filter[i].subs[j]) : j \in 1..Len(filter[i].subs) }
          ELSE IF filter[i].key \in DollarKeys THEN {}
          ELSE {filter[i].key}
          : i \in 1..Len(filter) }

C20_WitnessNoSchema ==
  /\ pc = "done"
  /\ call.op = "queryOne"
  /\ cfg.sanitize
  /\ Collection \notin DOMAIN schemaCache
  /\ "z" \in FieldKeys(call.filter)
  /\ run.status = "ok"

\* ------------------------------------------------------------------- $regex
\* C21: with sanitize enabled, a facade operation whose filter holds a $regex
\* pattern with a nested quantifier, or longer than 1000 characters, fails with
\* QUERY_ERROR and makes no driver call, on every backend.
C21_RegexGate ==
  (/\ pc = "done"
   /\ call.api = "facade"
   /\ call.filter = RegexFilter
   /\ cfg.sanitize
   /\ ~validateRegexComplexity(call.pattern)) =>
    /\ run.status = "error"
    /\ run.code = "QUERY_ERROR"
    /\ run.stmts = <<>>

\* ------------------------------------------------------------- placeholders
MaxPlaceholder == 12

\* the number a placeholder token carries, 0 for any other token
PlaceholderNumber(tok) ==
  IF \E i \in 1..MaxPlaceholder : tok \in {"$" \o IntToStr(i), "@p" \o IntToStr(i)}
    THEN CHOOSE i \in 1..MaxPlaceholder : tok \in {"$" \o IntToStr(i), "@p" \o IntToStr(i)}
    ELSE 0

IsPlaceholder(tok) == tok = "?" \/ PlaceholderNumber(tok) > 0

\* the clause with every numbered placeholder moved up by d
Shifted(clause, dialect, d) ==
  [i \in 1..Len(clause) |->
     IF PlaceholderNumber(clause[i]) = 0 THEN clause[i]
     ELSE (IF dialect = "pg" THEN "$" ELSE "@p")
          \o IntToStr(PlaceholderNumber(clause[i]) + d)]

Translated ==
  pc = "done" /\ call.api = "translator" /\ run.status = "ok"

CallerSet(update) == IF Get(update, "$set").t = "object" THEN Get(update, "$set").o ELSE <<>>

KeepsEntries(before, after, added, now) ==
  /\ ObjectKeys(after) = ObjectKeys(before) \cup added
  /\ \A k \in ObjectKeys(before) : Get(after, k) = Get(before, k)
  /\ \A k \in added \ ObjectKeys(before) : Get(after, k) = Date(now)

C23_WitnessUpdate ==
  /\ pc = "done" /\ call.api = "timestamps" /\ call.timestampConfig.enabled
  /\ call.op = "update"
  /\ "$inc" \in ObjectKeys(call.docs[1])
  /\ "$set" \notin ObjectKeys(call.docs[1])
  /\ Get(run.doc, "$set") = Object(<<KV(call.timestampConfig.updatedAt, Date(call.now))>>)

\* C24: for every map and every rule list, the empty list included,
\* applySanitizeRules leaves its argument as it was and returns a new map, not
\* the argument; the returned map has the argument's keys, and the value of each
\* key is the argument's value passed through the transforms of the rules that
\* cover the key, in list order: a rule without field or with '*' covers every
\* key, a rule naming fields covers those of them that are present.
Covers(rule, key) ==
  \/ rule.field \in {"undefined", "*"}
  \/ rule.field \in {"string", "array"} /\ \E i \in 1..Len(rule.names) : rule.names[i] = key

RECURSIVE ThroughRules(_, _, _)
ThroughRules(value, key, rules) ==
  IF rules = <<>> THEN value
  ELSE ThroughRules(IF Covers(Head(rules), key)
                      THEN transform(Head(rules).transform, value, key, Collection)
                      ELSE value,
                    key, Tail(rules))

RulesApplied == pc = "done" /\ call.api = "sanitizeRules"

C24_RulesInOrder ==
  RulesApplied =>
    /\ call.docs[2] = call.docs[1]
    /\ ObjectKeys(run.doc) = ObjectKeys(call.docs[1])
    /\ \A k \in ObjectKeys(call.docs[1]) :
         Get(run.doc, k) = ThroughRules(Get(call.docs[1], k), k, call.rules)

C24_FreshCopyInOrder ==
  /\ C24_RulesInOrder
  /\ RulesApplied => run.value = "fresh"

\* two rules whose order shows: lower-casing 'TIM' and then masking 'tim'
C24_Witness ==
  /\ RulesApplied
  /\ Len(call.rules) = 2
  /\ call.rules[1].transform = "lower" /\ call.rules[2].transform = "mask"
  /\ Get(call.docs[1], "name") = Scalar("TIM")
  /\ Get(run.doc, "name") = Scalar("***")
  /\ "email" \in ObjectKeys(call.docs[1])

\* the empty rule list hands the argument back
C24_EmptyRulesReturnArgument ==
  /\ RulesApplied
  /\ call.rules = <<>>
  /\ run.value = "arg"

\* C25: every call of reconnect(connectFn) eventually returns, whatever stop()
\* does meanwhile: once the loop waits out a backoff delay or has invoked
\* connectFn, the call reaches its return.
ReconnectPending == rm.pc \in {"sleep", "connect"}

C25_ReconnectReturns == ReconnectPending ~> (rm.pc = "returned")

\* stop() during the backoff delay: the timer is cleared while the loop still
\* awaits the promise only that timer resolves
C25_StoppedWhileSleeping == rm.pc = "sleep" /\ rm.stopped /\ ~rm.timer

\* C26: two concurrent relational updateOne calls with upsert and the same
\* equality filter, both started while no row matches: once both have returned,
\* exactly one row matches the filter, one receipt reports insertedCount 1 and
\* the other modifiedCount 1.
UpsertsStarted ==
  call.api = "adapter" /\ call.op = "updateOne" /\ call.upsert /\ Len(call.ops) = 2

UpsertsSettled ==
  UpsertsStarted /\ \A i \in Callers : call.ops[i].pc \in {"done", "failed"}

C26_OneUpsertInserts ==
  UpsertsSettled =>
    /\ run.m = 1
    /\ \E i \in Callers :
         /\ call.ops[i].pc = "done" /\ call.ops[i].receipt.insertedCount = 1
         /\ call.ops[3 - i].pc = "done" /\ call.ops[3 - i].receipt.insertedCount = 0
         /\ call.ops[3 - i].receipt.modifiedCount = 1

\* both callers saw no row affected by their UPDATE and both inserted
C26_BothInserted ==
  /\ UpsertsSettled
  /\ \A i \in Callers : call.ops[i].receipt.insertedCount = 1
  /\ run.m = 2

\* under a unique index the second INSERT is refused
C26_SecondInsertRefused ==
  /\ UpsertsSettled
  /\ \E i \in Callers : call.ops[i].pc = "failed" /\ call.ops[i].code = "DUPLICATE_KEY"

\* one call after the other: the second UPDATE finds the row the first inserted
C26_OneAfterTheOther ==
  /\ UpsertsSettled
  /\ run.m = 1
  /\ \E i \in Callers : call.ops[i].receipt.modifiedCount = 1

\* C27: the WHERE clause of translateToSQL and the query of translateToElastic
\* select the same documents: for every filter built from equality, null, the
\* comparison operators, $in, $nin, $exists, $not and the logical keys, and every
\* document of the data set (a missing field being NULL), the document is
\* selected by both or by neither.
BothTranslated == pc = "done" /\ call.api = "translators"

C27_TranslationsAgree ==
  BothTranslated => run.doc[1].selected = run.doc[2].selected

\* { a: { $ne: 2 } } on a document without a: NULL != 2 is not true, must_not term is
C27_MissingFieldDiffers ==
  /\ BothTranslated
  /\ call.filter = <<Bag("a", <<OpVal("$ne", <<2>>)>>)>>
  /\ call.docs[1].a = {}
  /\ ~run.doc[1].selected /\ run.doc[2].selected

\* { a: { $not: { $eq: 1, $gt: 0 } } } on a = 2: NOT (a = 1 AND a > 0) is true,
\* must_not [term, range] excludes the document
C27_NotBagDiffers ==
  /\ BothTranslated
  /\ call.filter = <<Bag("a", <<OpNot(<<OpVal("$eq", <<1>>), OpVal("$gt", <<0>>)>>)>>)>>
  /\ call.docs[1].a = {2}
  /\ run.doc[1].selected /\ ~run.doc[2].selected

\* { $or: [{ a: { $nin: [] } }, { b: 1 }] }: the sub-clause '1=1' is dropped from the
\* OR, the should list keeps it
C27_TrivialSubClauseDiffers ==
  /\ BothTranslated
  /\ call.filter = <<Logical("$or", << <<Bag("a", <<OpVal("$nin", <<>>)>>)>>,
                                        <<Equals("b", 1)>> >>)>>
  /\ call.docs[1] = [a |-> {1}, b |-> {2}]
  /\ ~run.doc[1].selected /\ run.doc[2].selected

\* the filters on which the two agree on every document present in the data
\* set: a document with both fields
C27_AgreeOnPresentFields ==
  /\ BothTranslated
  /\ call.filter = <<Bag("a", <<OpVal("$gt", <<1>>), OpVal("$lt", <<3>>)>>)>>
  /\ call.docs[1].a = {2}
  /\ run.doc[1].selected /\ run.doc[2].selected

\* C28: for a collection with a registered schema, validate(collection, {filter})
\* reports an unknown field exactly when the sanitizer would reject the filter
\* with QUERY_ERROR on a relational backend, names nested in $and/$or/$nor
\* included; validate() and explain() execute no statement.
DryRun(op) == pc = "done" /\ call.api = "facade" /\ call.op = op

UnknownFieldReported ==
  \E i \in 1..Len(run.doc) : run.doc[i].message = "Unknown field"

C28_NoAdapterCall ==
  (DryRun("validate") \/ DryRun("explain")) => (run.stmts = <<>> /\ run.rows = rows)

C28_ValidateAgreesWithSanitizer ==
  /\ C28_NoAdapterCall
  /\ (DryRun("validate") /\ Collection \in DOMAIN schemaRegistry) =>
       (UnknownFieldReported <=> ~sanitizeFilter(schemaCache, Collection, call.filter, "sql"))

\* an unknown name inside $or: the sanitizer rejects the filter, validate() reports
\* nothing
C28_NestedUnknownNotReported ==
  /\ DryRun("validate")
  /\ Collection \in DOMAIN schemaRegistry
  /\ schemaRegistry[Collection].typeName = "ZodObject"
  /\ call.filter = Fz
  /\ ~UnknownFieldReported
  /\ ~sanitizeFilter(schemaCache, Collection, call.filter, "sql")

\* a top-level unknown name is reported and rejected alike
C28_TopLevelUnknownReported ==
  /\ DryRun("validate")
  /\ Collection \in DOMAIN schemaRegistry
  /\ schemaRegistry[Collection].typeName = "ZodObject"
  /\ UnknownFieldReported
  /\ ~sanitizeFilter(schemaCache, Collection, call.filter, "sql")

\* a schema wrapped in a refinement: validate() knows no field name, the whitelist
\* knows them all
C28_RefinedSchemaDiffers ==
  /\ DryRun("validate")
  /\ Collection \in DOMAIN schemaRegistry
  /\ schemaRegistry[Collection].typeName = "ZodEffects"
  /\ call.filter = Fa
  /\ UnknownFieldReported
  /\ sanitizeFilter(schemaCache, Collection, call.filter, "sql")

\* C29: after any sequence of registerCollection, registerIndex and
\* clearRegistry, the field whitelist is defined for exactly the collections
\* that have a schema in the schema registry, and for each of them it is the
\* field names of that schema, the one registered last under the name.
C29_WhitelistOfRegistered ==
  \A c \in DOMAIN schemaRegistry :
    /\ c \in DOMAIN schemaCache
    /\ schemaCache[c] = extractFieldNames(schemaRegistry[c])

C29_WhitelistFollowsRegistry ==
  /\ DOMAIN schemaCache = DOMAIN schemaRegistry
  /\ C29_WhitelistOfRegistered

\* after clearRegistry() the whitelist of a collection registered before is still there
C29_WhitelistOutlivesSchema ==
  /\ DOMAIN schemaRegistry = {}
  /\ indexRegistry = <<>>
  /\ Collection \in DOMAIN schemaCache
  /\ schemaCache[Collection] = SchemaFields

\* a schema registered again under the same name replaces the whitelist
C29_Reregistered ==
  /\ Collection \in DOMAIN schemaRegistry
  /\ schemaRegistry[Collection] = Schema("ZodObject", {"id", "a"})
  /\ schemaCache[Collection] = {"id", "a"}
  /\ "orders" \in DOMAIN schemaRegistry
  /\ Len(indexRegistry) = MaxIndexes

\* C30: the counts of a write's receipt are what the backend did: matchedCount
\* and modifiedCount the documents matched and modified, insertedCount the
\* documents inserted, deletedCount the documents deleted, on the pool and
\* inside a transactional scope alike.
MongoWrote == pc = "done" /\ call.api = "adapter" /\ Len(run.doc) = 1 /\ cfg.backend = "mongo"

CountsMatch(receipt, result) ==
  /\ receipt.matchedCount = result.matchedCount
  /\ receipt.modifiedCount = result.modifiedCount
  /\ receipt.insertedCount = result.insertedCount + result.upsertedCount
  /\ receipt.deletedCount = result.deletedCount

C30_ReceiptCounts == MongoWrote => CountsMatch(run.receipt, run.doc[1])

\* updateMany on the pool with a filter matching nothing: the receipt says 1 and 1
C30_NothingMatchedReportsOne ==
  /\ MongoWrote
  /\ call.op = "updateMany" /\ run.stmts[1].handle = "pool"
  /\ run.m = 0 /\ run.doc[1].modifiedCount = 0
  /\ run.receipt.matchedCount = 1 /\ run.receipt.modifiedCount = 1

\* deleteMany of two documents on the pool: the receipt says 1
C30_TwoDeletedReportsOne ==
  /\ MongoWrote
  /\ call.op = "deleteMany" /\ run.stmts[1].handle = "pool"
  /\ run.doc[1].deletedCount = 2 /\ run.receipt.deletedCount = 1

\* the same updateMany on a session reports the driver's counts
C30_SessionReportsDriverCounts ==
  /\ MongoWrote
  /\ call.op = "updateMany" /\ run.stmts[1].handle = "session"
  /\ run.m = 0
  /\ run.receipt.matchedCount = 0 /\ run.receipt.modifiedCount = 0

====
